---------------------------- MODULE Spec2Model ----------------------------
(***************************************************************************)
(* A model of WSv2 (src/lib/transports/ws2.js): the connection life cycle, *)
(* the reconnect paths, the packet watchdog, the sequence audit, the       *)
(* managed stores and their checksums, the listener registry, the managed  *)
(* subscriptions, the order commands with their buffer, and the commands   *)
(* awaiting a confirmation.                                                *)
(*                                                                         *)
(* Every handler of the class is one action.  A handler's body is an       *)
(* operator on a record of the instance's fields, so that a method calling *)
(* another method (reconnect -> close, the reconnect timer ->              *)
(* reconnectAfterClose -> open) composes as in the code.  A continuation   *)
(* that follows the settling of a promise (the code after an `await`) runs *)
(* in the action of the event that settles it: nothing else runs between a *)
(* socket event and the promise continuations it releases.                 *)
(*                                                                         *)
(* Conventions: null is 0 for the transport and for the timer handle; an   *)
(* 'error' listener is registered, so emit('error') reports and does not   *)
(* throw; user callbacks do not call back into the instance.               *)
(*                                                                         *)
(* Not modelled: the reconnect throttler and the transform option.         *)
(***************************************************************************)
EXTENDS Integers, Sequences, FiniteSets, TLC

\* ------------------------------------------------------------- bounds
\* Transports (WebSocket objects) one instance may create in a behaviour.
MaxSockets == 2
\* Pending close() futures at a time.
MaxCloseCalls == 2
\* Pending once-listeners on 'open', and on 'auth', at a time.
MaxWaiters == 2
\* Depth at which the runtime's call stack overflows (RangeError).
MaxCallDepth == 3
MaxSeq == 3
\* The largest order-op buffering delay given to the constructor.
MaxDelay == 1
\* managedSubscribe calls counted for one (channel, identifier).
MaxRefs == 3
\* Listeners registered on one instance.
MaxListeners == 3
\* Commands awaiting their confirmation at a time.
MaxOrderOps == 40
\* Single-order commands (submit, update, cancel) made while fewer than this
\* many commands await their confirmation.
MaxSingleOps == 3
\* Commands awaiting their confirmation under one key.
MaxPending == 1

\* ------------------------------------------------------ program constants
SEQ_ALL == 65536
\* The most operations _flushOrderOps puts in one multi-op message.
MaxOpsPerMessage == 15

NULL == 0
UNSET == -1

\* A JS object used as a map: a function whose domain is the keys present.
EmptyMap == [k \in {} |-> NULL]
Has(map, k) == k \in DOMAIN map
Put(map, k, v) == [x \in DOMAIN map \cup {k} |-> IF x = k THEN v ELSE map[x]]
Del(map, k) == [x \in DOMAIN map \ {k} |-> map[x]]

\* An entry of the channel map: the fields of a 'subscribed' message that the
\* code reads ("" for a field the message does not carry).
Chan(channel, symbol, key, prec, len) ==
  [channel |-> channel, symbol |-> symbol, key |-> key, prec |-> prec, len |-> len]

VARIABLES
  \* constructor options
  autoReconnect, packetWDDelay, manageOrderBooks, manageCandles,
  \* instance fields
  seqAudit, enabledFlags, isOpen, ws, isClosing, isReconnecting,
  isAuthenticated, authOnReconnect, lastPubSeq, lastAuthSeq,
  packetWDTimeout, channelMap, prevChannelMap, subscriptionRefs,
  candles, orderBooks, losslessOrderBooks,
  \* the order-op buffer: the option as given to the constructor, the field,
  \* the buffered packets, the flush timer (armed or null)
  optOrderOpBufferDelay, orderOpBufferDelay, orderOpBuffer, orderOpTimeout,
  \* the listener registry and the pending command callbacks
  listeners, eventCallbacks,
  \* the runtime: transports, armed timers, pending once-listeners
  sockets, reconnectTimers, wdTimers, closeWaiters, openWaiters, authWaiters,
  \* what the last handler did: its name, the packet it received, the frames
  \* it wrote to the transport, the events it emitted, the futures it settled,
  \* the packets it handed to the listener registry, the error it threw, the
  \* listener calls it made
  op, rx, sent, events, resolved, propagated, thrown, invoked

vars ==
  << autoReconnect, packetWDDelay, manageOrderBooks, manageCandles,
     seqAudit, enabledFlags, isOpen, ws, isClosing, isReconnecting,
     isAuthenticated, authOnReconnect, lastPubSeq, lastAuthSeq,
     packetWDTimeout, channelMap, prevChannelMap, subscriptionRefs,
     candles, orderBooks, losslessOrderBooks,
     optOrderOpBufferDelay, orderOpBufferDelay, orderOpBuffer, orderOpTimeout,
     listeners, eventCallbacks,
     sockets, reconnectTimers, wdTimers, closeWaiters, openWaiters, authWaiters,
     op, rx, sent, events, resolved, propagated, thrown, invoked >>

\* The instance as a record, for the handlers' bodies.
This ==
  [ autoReconnect |-> autoReconnect, packetWDDelay |-> packetWDDelay,
    manageOrderBooks |-> manageOrderBooks, manageCandles |-> manageCandles,
    seqAudit |-> seqAudit, enabledFlags |-> enabledFlags, isOpen |-> isOpen,
    ws |-> ws, isClosing |-> isClosing, isReconnecting |-> isReconnecting,
    isAuthenticated |-> isAuthenticated, authOnReconnect |-> authOnReconnect,
    lastPubSeq |-> lastPubSeq, lastAuthSeq |-> lastAuthSeq,
    packetWDTimeout |-> packetWDTimeout, channelMap |-> channelMap,
    prevChannelMap |-> prevChannelMap, subscriptionRefs |-> subscriptionRefs,
    candles |-> candles, orderBooks |-> orderBooks,
    losslessOrderBooks |-> losslessOrderBooks,
    optOrderOpBufferDelay |-> optOrderOpBufferDelay,
    orderOpBufferDelay |-> orderOpBufferDelay,
    orderOpBuffer |-> orderOpBuffer, orderOpTimeout |-> orderOpTimeout,
    listeners |-> listeners, eventCallbacks |-> eventCallbacks,
    sockets |-> sockets, reconnectTimers |-> reconnectTimers,
    wdTimers |-> wdTimers, closeWaiters |-> closeWaiters,
    openWaiters |-> openWaiters, authWaiters |-> authWaiters,
    op |-> op, rx |-> rx, sent |-> sent, events |-> events,
    resolved |-> resolved, propagated |-> propagated, thrown |-> thrown,
    invoked |-> invoked ]

NoPacket == [kind |-> "none"]

\* A handler starts: nothing written, emitted, settled or thrown yet.
Begin(name, packet) ==
  [This EXCEPT !.op = name, !.rx = packet, !.sent = <<>>, !.events = <<>>,
               !.resolved = <<>>, !.propagated = <<>>, !.thrown = "",
               !.invoked = <<>>]

\* The handler has run: the instance's fields are those of s.
Commit(s) ==
  /\ autoReconnect' = s.autoReconnect
  /\ packetWDDelay' = s.packetWDDelay
  /\ manageOrderBooks' = s.manageOrderBooks
  /\ manageCandles' = s.manageCandles
  /\ seqAudit' = s.seqAudit
  /\ enabledFlags' = s.enabledFlags
  /\ isOpen' = s.isOpen
  /\ ws' = s.ws
  /\ isClosing' = s.isClosing
  /\ isReconnecting' = s.isReconnecting
  /\ isAuthenticated' = s.isAuthenticated
  /\ authOnReconnect' = s.authOnReconnect
  /\ lastPubSeq' = s.lastPubSeq
  /\ lastAuthSeq' = s.lastAuthSeq
  /\ packetWDTimeout' = s.packetWDTimeout
  /\ channelMap' = s.channelMap
  /\ prevChannelMap' = s.prevChannelMap
  /\ subscriptionRefs' = s.subscriptionRefs
  /\ candles' = s.candles
  /\ orderBooks' = s.orderBooks
  /\ losslessOrderBooks' = s.losslessOrderBooks
  /\ optOrderOpBufferDelay' = s.optOrderOpBufferDelay
  /\ orderOpBufferDelay' = s.orderOpBufferDelay
  /\ orderOpBuffer' = s.orderOpBuffer
  /\ orderOpTimeout' = s.orderOpTimeout
  /\ listeners' = s.listeners
  /\ eventCallbacks' = s.eventCallbacks
  /\ sockets' = s.sockets
  /\ reconnectTimers' = s.reconnectTimers
  /\ wdTimers' = s.wdTimers
  /\ closeWaiters' = s.closeWaiters
  /\ openWaiters' = s.openWaiters
  /\ authWaiters' = s.authWaiters
  /\ op' = s.op
  /\ rx' = s.rx
  /\ sent' = s.sent
  /\ events' = s.events
  /\ resolved' = s.resolved
  /\ propagated' = s.propagated
  /\ thrown' = s.thrown
  /\ invoked' = s.invoked

\* ------------------------------------------------------------ helpers
emit(s, e) == [s EXCEPT !.events = Append(@, e)]

throw(s, e) == [s EXCEPT !.thrown = e]

\* A pending future: the call it belongs to ("close" by the user, "infoClose"
\* by _handleInfoEvent, "reconnect", "auth", "open"); for close and reconnect
\* the transport it was called on, and for reconnect the auth-on-reconnect
\* flag at the call.
Waiter(kind, s) ==
  [kind |-> kind,
   sock |-> IF kind = "auth" THEN NULL ELSE s.ws,
   auth |-> kind = "reconnect" /\ s.authOnReconnect]

settle(s, ws_) == [s EXCEPT !.resolved = @ \o ws_]

\* send (msg)
send(s, msg) ==
  IF s.ws = NULL \/ ~s.isOpen THEN emit(s, "error")
  ELSE IF s.isClosing THEN emit(s, "error")
  ELSE [s EXCEPT !.sent = Append(@, msg)]

\* sendEnabledFlags ()
sendEnabledFlags(s) == send(s, [event |-> "conf", flags |-> s.enabledFlags])

\* subscribe (channel, payload)
subscribe(s, channel, payload) ==
  send(s, [event |-> "subscribe", channel |-> channel, payload |-> payload])

\* managedSubscribe (channel, identifier, payload)
managedSubscribe(s, channel, identifier, payload) ==
  LET key == <<channel, identifier>> IN
  IF Has(s.subscriptionRefs, key) /\ s.subscriptionRefs[key] # 0
  THEN [s EXCEPT !.subscriptionRefs[key] = @ + 1]
  ELSE subscribe([s EXCEPT !.subscriptionRefs = Put(@, key, 1)], channel, payload)

subscribeTicker(s, symbol) ==
  managedSubscribe(s, "ticker", symbol, [symbol |-> symbol])

subscribeTrades(s, symbol) ==
  managedSubscribe(s, "trades", symbol, [symbol |-> symbol])

\* subscribeOrderBook (symbol, prec = 'P0', len = '25'): a missing field of the
\* stored entry takes the default.
subscribeOrderBook(s, symbol, prec, len) ==
  managedSubscribe(s, "book", symbol,
    [symbol |-> symbol,
     len |-> IF len = "" THEN "25" ELSE len,
     prec |-> IF prec = "" THEN "P0" ELSE prec])

subscribeCandles(s, key) ==
  managedSubscribe(s, "candles", key, [key |-> key])

subscribeStatus(s, key) ==
  managedSubscribe(s, "status", key, [key |-> key])

\* unsubscribe (chanId)
unsubscribe(s, chanId) == send(s, [event |-> "unsubscribe", chanId |-> chanId])

\* _chanIdByIdentifier (channel, identifier): the first matching id in key
\* order, -1 for null.
chanIdByIdentifier(s, channel, identifier) ==
  LET ids == {id \in DOMAIN s.channelMap :
                /\ s.channelMap[id].channel = channel
                /\ (s.channelMap[id].symbol = identifier
                    \/ s.channelMap[id].key = identifier)}
  IN IF ids = {} THEN UNSET ELSE CHOOSE id \in ids : \A other \in ids : id <= other

\* managedUnsubscribe (channel, identifier)
managedUnsubscribe(s, channel, identifier) ==
  LET key == <<channel, identifier>>
      chanId == chanIdByIdentifier(s, channel, identifier)
  IN IF chanId = UNSET \/ ~Has(s.subscriptionRefs, key) THEN s
     ELSE IF s.subscriptionRefs[key] - 1 > 0
     THEN [s EXCEPT !.subscriptionRefs[key] = @ - 1]
     ELSE [unsubscribe([s EXCEPT !.subscriptionRefs[key] = @ - 1], chanId)
             EXCEPT !.subscriptionRefs = Del(@, key)]

unsubscribeTicker(s, symbol) == managedUnsubscribe(s, "ticker", symbol)

unsubscribeTrades(s, symbol) == managedUnsubscribe(s, "trades", symbol)

unsubscribeOrderBook(s, symbol) == managedUnsubscribe(s, "book", symbol)

\* ------------------------------------------------- pending commands
\* The key a command's confirmation is awaited under: `order-new-${cid}`,
\* `order-update-${id}`, `order-cancel-${id}`, `conf-res-${flag}`.
EventKey(type, id) == [type |-> type, id |-> id]

\* A command's future, pending, resolved or rejected, with the transport
\* current at the call and the message the call wrote to it, if any.
Command(s, key) ==
  [kind |-> "command", key |-> key, sock |-> s.ws, outcome |-> "pending",
   request |-> IF s.sent = <<>> THEN [event |-> "none"] ELSE s.sent[Len(s.sent)]]

\* _getEventPromise (key): CbQ.push(key, cb)
getEventPromise(s, key) ==
  [s EXCEPT !.eventCallbacks =
     Put(@, key, IF Has(@, key) THEN Append(@[key], Command(s, key))
                 ELSE <<Command(s, key)>>)]

\* CbQ.trigger (key, err, res): every callback queued under the key is called
\* and the key is removed.
trigger(s, key, err) ==
  IF ~Has(s.eventCallbacks, key) THEN s
  ELSE settle([s EXCEPT !.eventCallbacks = Del(@, key)],
              [i \in 1..Len(s.eventCallbacks[key]) |->
                 [s.eventCallbacks[key][i] EXCEPT
                    !.outcome = IF err THEN "rejected" ELSE "resolved"]])

\* a | b on non-negative integers
RECURSIVE BitOr(_, _)
BitOr(a, b) ==
  IF a = 0 THEN b
  ELSE IF b = 0 THEN a
  ELSE 2 * BitOr(a \div 2, b \div 2) + (IF a % 2 = 1 \/ b % 2 = 1 THEN 1 ELSE 0)

\* _getConfigEventKey (flag)
getConfigEventKey(flag) == EventKey("conf-res", flag)

\* enableFlag (flag)
enableFlag(s, flag) ==
  LET s1 == [s EXCEPT !.enabledFlags = BitOr(@, flag)] IN
  IF ~s1.isOpen THEN s1
  ELSE getEventPromise(sendEnabledFlags(s1), getConfigEventKey(flag))

\* _handleConfigEvent (msg)
handleConfigEvent(s, msg) ==
  LET k == getConfigEventKey(msg.flags) IN
  IF msg.status # "OK" THEN trigger(emit(s, "error"), k, TRUE)
  ELSE trigger([s EXCEPT !.enabledFlags = msg.flags], k, FALSE)

\* _onWSNotification() resolving the future whatever the status.
onWSNotification_AlwaysResolves(s, arrN) ==
  IF "order" \notin DOMAIN arrN THEN s
  ELSE CASE arrN.b1 = "on-req" -> trigger(s, EventKey("order-new", arrN.order.cid), FALSE)
         [] arrN.b1 = "oc-req" -> trigger(s, EventKey("order-cancel", arrN.order.id), FALSE)
         [] arrN.b1 = "ou-req" -> trigger(s, EventKey("order-update", arrN.order.id), FALSE)
         [] OTHER -> s

\* _onWSNotification (arrN): arrN[4] is the order [id, gid, cid, ...] when the
\* notification carries one, arrN[6] the status.
onWSNotification(s, arrN) ==
  IF "order" \notin DOMAIN arrN THEN s
  ELSE CASE arrN.b1 = "on-req" ->
              trigger(s, EventKey("order-new", arrN.order.cid), arrN.status # "SUCCESS")
         [] arrN.b1 = "oc-req" ->
              trigger(s, EventKey("order-cancel", arrN.order.id), arrN.status # "SUCCESS")
         [] arrN.b1 = "ou-req" ->
              trigger(s, EventKey("order-update", arrN.order.id), arrN.status # "SUCCESS")
         [] OTHER -> s

\* ------------------------------------------------------ order commands
\* An order packet [0, type, null, payload], the payload reduced to the id
\* (cid for a new order) its confirmation is keyed by.
OrderPacket(type, id) == [event |-> "", type |-> type, id |-> id]
MultiOpPacket(ops) == [event |-> "", type |-> "ox_multi", ops |-> ops]

\* _hasOrderBuff ()
hasOrderBuff(s) == s.orderOpBufferDelay > 0

\* _ensureOrderBuffTimeout() setting a timer at every call.
ensureOrderBuffTimeout_Rearms(s) ==
  [s EXCEPT !.orderOpTimeout = IF @ = NULL THEN 1 ELSE @ + 1]

\* _ensureOrderBuffTimeout ()
ensureOrderBuffTimeout(s) ==
  IF s.orderOpTimeout # NULL THEN s ELSE [s EXCEPT !.orderOpTimeout = 1]

\* _sendOrderPacket (packet)
sendOrderPacket(s, packet) ==
  IF hasOrderBuff(s)
  THEN [ensureOrderBuffTimeout(s) EXCEPT !.orderOpBuffer = Append(@, packet)]
  ELSE send(s, packet)

\* submitOrder (order)
submitOrder(s, cid) ==
  IF ~s.isAuthenticated THEN throw(s, "not authenticated")
  ELSE getEventPromise(sendOrderPacket(s, OrderPacket("on", cid)),
                       EventKey("order-new", cid))

\* updateOrder() sending the changes whether they name an order or not.
updateOrder_IdNotRequired(s, id) ==
  IF ~s.isAuthenticated THEN throw(s, "not authenticated")
  ELSE getEventPromise(sendOrderPacket(s, OrderPacket("ou", id)),
                       EventKey("order-update", id))

\* updateOrder (changes): id 0 is a changes object without an id.
updateOrder(s, id) ==
  IF ~s.isAuthenticated THEN throw(s, "not authenticated")
  ELSE IF id = 0 THEN throw(s, "order ID required for update")
  ELSE getEventPromise(sendOrderPacket(s, OrderPacket("ou", id)),
                       EventKey("order-update", id))

\* cancelOrder (order)
cancelOrder(s, id) ==
  IF ~s.isAuthenticated THEN throw(s, "not authenticated")
  ELSE getEventPromise(sendOrderPacket(s, OrderPacket("oc", id)),
                       EventKey("order-cancel", id))

RECURSIVE cancelEach(_, _)
cancelEach(s, ids) ==
  IF ids = <<>> THEN s ELSE cancelEach(cancelOrder(s, Head(ids)), Tail(ids))

\* cancelOrders (orders)
cancelOrders(s, ids) ==
  IF ~s.isAuthenticated THEN throw(s, "not authenticated")
  ELSE cancelEach(s, ids)

\* submitOrderMultiOp (opPayloads)
submitOrderMultiOp(s, opPayloads) ==
  IF ~s.isAuthenticated THEN throw(s, "not authenticated")
  ELSE send(s, MultiOpPacket(opPayloads))

\* The while loop of _flushOrderOps: packets.splice(0, min(length, 15)).
RECURSIVE flushChunks(_, _)
flushChunks(s, packets) ==
  IF packets = <<>> THEN s
  ELSE LET n == IF Len(packets) < MaxOpsPerMessage THEN Len(packets)
                ELSE MaxOpsPerMessage
       IN flushChunks(submitOrderMultiOp(s, SubSeq(packets, 1, n)),
                      SubSeq(packets, n + 1, Len(packets)))

\* _flushOrderOps() sending the whole buffer in one message.
flushOrderOps_OneMessage(s) ==
  LET packets == [i \in 1..Len(s.orderOpBuffer) |->
                    <<s.orderOpBuffer[i].type, s.orderOpBuffer[i].id>>]
  IN submitOrderMultiOp([s EXCEPT !.orderOpTimeout = NULL, !.orderOpBuffer = <<>>],
                        packets)

\* _flushOrderOps ()
flushOrderOps(s) ==
  LET packets == [i \in 1..Len(s.orderOpBuffer) |->
                    <<s.orderOpBuffer[i].type, s.orderOpBuffer[i].id>>]
      s1 == [s EXCEPT !.orderOpTimeout = NULL, !.orderOpBuffer = <<>>]
  IN IF Len(packets) <= MaxOpsPerMessage THEN submitOrderMultiOp(s1, packets)
     ELSE flushChunks(s1, packets)

\* ---------------------------------------------------- open, close, auth
\* open() clearing the references and the stores before its check.
open_ClearsBeforeCheck(s, opener) ==
  LET s1 == [s EXCEPT !.subscriptionRefs = EmptyMap, !.candles = EmptyMap,
                      !.orderBooks = EmptyMap]
  IN IF s.isOpen \/ s.ws # NULL THEN throw(s1, "already open")
     ELSE [s1 EXCEPT
             !.sockets = Append(@, [state |-> "connecting", closeFrames |-> 0,
                                    opener |-> opener]),
             !.ws = Len(s.sockets) + 1]

\* open() checking the open flag only, not the transport.
open_ChecksOpenFlagOnly(s, opener) ==
  IF s.isOpen THEN throw(s, "already open")
  ELSE [s EXCEPT
          !.sockets = Append(@, [state |-> "connecting", closeFrames |-> 0,
                                 opener |-> opener]),
          !.ws = Len(s.sockets) + 1,
          !.subscriptionRefs = EmptyMap,
          !.candles = EmptyMap,
          !.orderBooks = EmptyMap]

\* open (): the part that runs at the call.  The part that runs at the
\* transport's open event is onOpenEvent.
open(s, opener) ==
  IF s.isOpen \/ s.ws # NULL THEN throw(s, "already open")
  ELSE [s EXCEPT
          !.sockets = Append(@, [state |-> "connecting", closeFrames |-> 0,
                                 opener |-> opener]),
          !.ws = Len(s.sockets) + 1,
          !.subscriptionRefs = EmptyMap,
          !.candles = EmptyMap,
          !.orderBooks = EmptyMap]

\* close() without the closing flag's check: every call sends a close frame.
close_SendsEveryTime(s, w) ==
  IF ~s.isOpen \/ s.ws = NULL THEN throw(s, "not open")
  ELSE [s EXCEPT !.closeWaiters = Append(@, w),
                 !.isClosing = TRUE,
                 !.sockets[s.ws].closeFrames = @ + 1,
                 !.sockets[s.ws].state = "closing"]

\* close (code, reason): the part that runs at the call.  The once-listener it
\* leaves on the transport is the waiter; onCloseEvent runs it.
close(s, w) ==
  IF ~s.isOpen \/ s.ws = NULL THEN throw(s, "not open")
  ELSE LET s1 == [s EXCEPT !.closeWaiters = Append(@, w)] IN
       IF ~s1.isClosing
       THEN [s1 EXCEPT !.isClosing = TRUE,
                       !.sockets[s.ws].closeFrames = @ + 1,
                       !.sockets[s.ws].state = "closing"]
       ELSE s1

\* auth() setting the auth-on-reconnect flag after its checks.
auth_ChecksFirst(s, w) ==
  IF ~s.isOpen THEN throw(s, "not open")
  ELSE IF s.isAuthenticated THEN throw(s, "already authenticated")
  ELSE send([s EXCEPT !.authOnReconnect = TRUE, !.authWaiters = Append(@, w)],
            [event |-> "auth"])

\* auth() without the check for an authenticated connection.
auth_AgainWhenAuthenticated(s, w) ==
  LET s1 == [s EXCEPT !.authOnReconnect = TRUE] IN
  IF ~s1.isOpen THEN throw(s1, "not open")
  ELSE send([s1 EXCEPT !.authWaiters = Append(@, w)], [event |-> "auth"])

\* auth (calc, dms)
auth(s, w) ==
  LET s1 == [s EXCEPT !.authOnReconnect = TRUE] IN
  IF ~s1.isOpen THEN throw(s1, "not open")
  ELSE IF s1.isAuthenticated THEN throw(s1, "already authenticated")
  ELSE send([s1 EXCEPT !.authWaiters = Append(@, w)], [event |-> "auth"])

\* --------------------------------------------------------- reconnect
\* reconnect () and reconnectAfterClose () call each other; depth is the
\* number of frames the two have put on the call stack.  When the stack is
\* full the call throws and every caller's promise is rejected.
RECURSIVE reconnect(_, _), reconnectAfterClose(_, _)

reconnect(s, depth) ==
  IF depth >= MaxCallDepth THEN throw(s, "RangeError")
  ELSE
    LET s1 == [s EXCEPT !.isReconnecting = TRUE] IN
    IF s1.ws # NULL /\ s1.isOpen
    THEN close(s1, Waiter("reconnect", s1))
    ELSE reconnectAfterClose(s1, depth + 1)

reconnectAfterClose(s, depth) ==
  IF depth >= MaxCallDepth THEN throw(s, "RangeError")
  ELSE
    IF ~s.isReconnecting \/ s.ws # NULL \/ s.isOpen
    THEN reconnect(s, depth + 1)
    ELSE open(s, "reconnectAfterClose")

\* ---------------------------------------------------------- watchdog
\* The smallest timer id no armed watchdog timer carries.
FreshTimer(timers) ==
  CHOOSE i \in 1..(Cardinality(timers) + 1) :
    /\ \A t \in timers : t.id # i
    /\ \A j \in 1..(i - 1) : \E t \in timers : t.id = j

\* _resetPacketWD() without the clearTimeout.
resetPacketWD_NoClear(s) ==
  IF ~s.packetWDDelay THEN s
  ELSE IF ~s.isOpen THEN s
  ELSE LET id == FreshTimer(s.wdTimers) IN
       [s EXCEPT !.packetWDTimeout = id,
                 !.wdTimers = @ \cup {[id |-> id, sock |-> s.ws]}]

\* _resetPacketWD ()
resetPacketWD(s) ==
  IF ~s.packetWDDelay THEN s
  ELSE
    LET s1 == IF s.packetWDTimeout # NULL
              THEN [s EXCEPT !.wdTimers = {t \in @ : t.id # s.packetWDTimeout}]
              ELSE s
    IN IF ~s1.isOpen THEN s1
       ELSE LET id == FreshTimer(s1.wdTimers) IN
            [s1 EXCEPT !.packetWDTimeout = id,
                       !.wdTimers = @ \cup {[id |-> id, sock |-> s1.ws]}]

\* _triggerPacketWD ()
triggerPacketWD(s) ==
  IF ~s.packetWDDelay \/ ~s.isOpen THEN s
  ELSE reconnect([s EXCEPT !.packetWDTimeout = NULL], 0)

\* --------------------------------------------------- transport events
\* The channel ids of a map in the order Object.values visits them.
RECURSIVE KeysAscending(_)
KeysAscending(keys) ==
  IF keys = {} THEN <<>>
  ELSE LET k == CHOOSE x \in keys : \A y \in keys : x <= y
       IN <<k>> \o KeysAscending(keys \ {k})

resubscribeChannel(s, chan) ==
  CASE chan.channel = "ticker" -> subscribeTicker(s, chan.symbol)
    [] chan.channel = "trades" -> subscribeTrades(s, chan.symbol)
    [] chan.channel = "book" -> subscribeOrderBook(s, chan.symbol, chan.prec, chan.len)
    [] chan.channel = "candles" -> subscribeCandles(s, chan.key)
    [] OTHER -> s

RECURSIVE resubscribeEach(_, _, _)
resubscribeEach(s, map, ids) ==
  IF ids = <<>> THEN s
  ELSE resubscribeEach(resubscribeChannel(s, map[Head(ids)]), map, Tail(ids))

\* resubscribePreviousChannels ()
resubscribePreviousChannels(s) ==
  resubscribeEach(s, s.prevChannelMap, KeysAscending(DOMAIN s.prevChannelMap))

\* _onWSOpen (): emit('open') runs the once-listeners reconnect() left.
onWSOpen(s) ==
  LET s1 == [s EXCEPT !.isOpen = TRUE, !.isReconnecting = FALSE,
                      !.lastAuthSeq = UNSET, !.lastPubSeq = UNSET]
      s2 == settle([emit(s1, "open") EXCEPT !.openWaiters = <<>>], s1.openWaiters)
  IN IF DOMAIN s2.prevChannelMap # {}
     THEN [resubscribePreviousChannels(s2) EXCEPT !.prevChannelMap = EmptyMap]
     ELSE s2

\* The 'open' listener open() leaves on transport k, and what awaits open():
\* the rest of reconnectAfterClose.
onOpenEvent(s, k) ==
  LET s1 == onWSOpen([s EXCEPT !.sockets[k].state = "open"])
      s2 == IF s1.enabledFlags # 0 THEN sendEnabledFlags(s1) ELSE s1
      s3 == settle(s2, <<Waiter("open", s2)>>)
  IN IF s.sockets[k].opener = "reconnectAfterClose" /\ s3.authOnReconnect
     THEN auth(s3, Waiter("auth", s3))
     ELSE s3

\* _onWSClose() without the closing flag in its condition: auto-reconnect
\* also follows a direct close().
onWSClose_IgnoresClosing(s, k) ==
  LET s1 == emit([s EXCEPT !.isOpen = FALSE, !.isAuthenticated = FALSE,
                           !.lastAuthSeq = UNSET, !.lastPubSeq = UNSET,
                           !.enabledFlags = 0, !.ws = NULL,
                           !.subscriptionRefs = EmptyMap], "close")
      s2 == IF s1.isReconnecting \/ s1.autoReconnect
            THEN [s1 EXCEPT !.prevChannelMap = s1.channelMap,
                            !.reconnectTimers = @ \cup {k}]
            ELSE s1
  IN [s2 EXCEPT !.channelMap = EmptyMap, !.isClosing = FALSE]

\* _onWSClose() cancelling the armed watchdog timer.
onWSClose_CancelsWatchdog(s, k) ==
  LET s1 == emit([s EXCEPT !.isOpen = FALSE, !.isAuthenticated = FALSE,
                           !.lastAuthSeq = UNSET, !.lastPubSeq = UNSET,
                           !.enabledFlags = 0, !.ws = NULL,
                           !.subscriptionRefs = EmptyMap,
                           !.wdTimers = {}, !.packetWDTimeout = NULL], "close")
      s2 == IF s1.isReconnecting \/ (s1.autoReconnect /\ ~s1.isClosing)
            THEN [s1 EXCEPT !.prevChannelMap = s1.channelMap,
                            !.reconnectTimers = @ \cup {k}]
            ELSE s1
  IN [s2 EXCEPT !.channelMap = EmptyMap, !.isClosing = FALSE]

\* _onWSClose() leaving the subscription references as they are.
onWSClose_KeepsRefs(s, k) ==
  LET s1 == emit([s EXCEPT !.isOpen = FALSE, !.isAuthenticated = FALSE,
                           !.lastAuthSeq = UNSET, !.lastPubSeq = UNSET,
                           !.enabledFlags = 0, !.ws = NULL], "close")
      s2 == IF s1.isReconnecting \/ (s1.autoReconnect /\ ~s1.isClosing)
            THEN [s1 EXCEPT !.prevChannelMap = s1.channelMap,
                            !.reconnectTimers = @ \cup {k}]
            ELSE s1
  IN [s2 EXCEPT !.channelMap = EmptyMap, !.isClosing = FALSE]

\* _onWSClose() leaving the enabled flags as they are.
onWSClose_KeepsFlags(s, k) ==
  LET s1 == emit([s EXCEPT !.isOpen = FALSE, !.isAuthenticated = FALSE,
                           !.lastAuthSeq = UNSET, !.lastPubSeq = UNSET,
                           !.ws = NULL,
                           !.subscriptionRefs = EmptyMap], "close")
      s2 == IF s1.isReconnecting \/ (s1.autoReconnect /\ ~s1.isClosing)
            THEN [s1 EXCEPT !.prevChannelMap = s1.channelMap,
                            !.reconnectTimers = @ \cup {k}]
            ELSE s1
  IN [s2 EXCEPT !.channelMap = EmptyMap, !.isClosing = FALSE]

\* _onWSClose() leaving the authenticated flag as it is.
onWSClose_KeepsAuthenticated(s, k) ==
  LET s1 == emit([s EXCEPT !.isOpen = FALSE,
                           !.lastAuthSeq = UNSET, !.lastPubSeq = UNSET,
                           !.enabledFlags = 0, !.ws = NULL,
                           !.subscriptionRefs = EmptyMap], "close")
      s2 == IF s1.isReconnecting \/ (s1.autoReconnect /\ ~s1.isClosing)
            THEN [s1 EXCEPT !.prevChannelMap = s1.channelMap,
                            !.reconnectTimers = @ \cup {k}]
            ELSE s1
  IN [s2 EXCEPT !.channelMap = EmptyMap, !.isClosing = FALSE]

\* _onWSClose() rejecting the commands that await their confirmation.
onWSClose_RejectsPending(s, k) ==
  LET s1 == emit([s EXCEPT !.isOpen = FALSE, !.isAuthenticated = FALSE,
                           !.lastAuthSeq = UNSET, !.lastPubSeq = UNSET,
                           !.enabledFlags = 0, !.ws = NULL,
                           !.subscriptionRefs = EmptyMap], "close")
      s2 == IF s1.isReconnecting \/ (s1.autoReconnect /\ ~s1.isClosing)
            THEN [s1 EXCEPT !.prevChannelMap = s1.channelMap,
                            !.reconnectTimers = @ \cup {k}]
            ELSE s1
  IN [s2 EXCEPT !.channelMap = EmptyMap, !.isClosing = FALSE,
                !.eventCallbacks = EmptyMap]

\* _onWSClose (), run for the close event of transport k.
onWSClose(s, k) ==
  LET s1 == emit([s EXCEPT !.isOpen = FALSE, !.isAuthenticated = FALSE,
                           !.lastAuthSeq = UNSET, !.lastPubSeq = UNSET,
                           !.enabledFlags = 0, !.ws = NULL,
                           !.subscriptionRefs = EmptyMap], "close")
      s2 == IF s1.isReconnecting \/ (s1.autoReconnect /\ ~s1.isClosing)
            THEN [s1 EXCEPT !.prevChannelMap = s1.channelMap,
                            !.reconnectTimers = @ \cup {k}]
            ELSE s1
  IN [s2 EXCEPT !.channelMap = EmptyMap, !.isClosing = FALSE]

\* The rest of reconnect() waiting for 'open' whatever the auth flag.
afterClose_AlwaysOpen(s, w) ==
  IF w.kind # "reconnect" THEN s
  ELSE [s EXCEPT !.openWaiters = Append(@, w)]

\* What awaits a close() future once it is resolved: the rest of reconnect().
afterClose(s, w) ==
  IF w.kind # "reconnect" THEN s
  ELSE IF s.authOnReconnect
       THEN [s EXCEPT !.authWaiters = Append(@, w)]
       ELSE [s EXCEPT !.openWaiters = Append(@, w)]

\* The close() future a waiter stands for: reconnect()'s own future is not
\* the close() future it awaits.
closeFuture(w) ==
  IF w.kind = "reconnect" THEN [w EXCEPT !.kind = "reconnect.close"] ELSE w

\* The once-listeners close() left on the transport, in the order they were
\* added, each followed by what awaits it.
RECURSIVE runCloseWaiters(_, _)
runCloseWaiters(s, waiters) ==
  IF waiters = <<>> THEN s
  ELSE LET w == Head(waiters)
           s1 == settle([s EXCEPT !.isOpen = FALSE, !.ws = NULL], <<closeFuture(w)>>)
       IN runCloseWaiters(afterClose(s1, w), Tail(waiters))

\* A transport after its close event: nothing reads it any more.
ClosedSocket == [state |-> "closed", closeFrames |-> 0, opener |-> ""]

\* The close event of transport k: _onWSClose, then close()'s listeners.
onCloseEvent(s, k) ==
  LET s1 == onWSClose([s EXCEPT !.sockets[k] = ClosedSocket], k)
      mine == SelectSeq(s1.closeWaiters, LAMBDA w : w.sock = k)
      rest == SelectSeq(s1.closeWaiters, LAMBDA w : w.sock # k)
  IN runCloseWaiters([s1 EXCEPT !.closeWaiters = rest], mine)

\* ------------------------------------------------------------ packets
\* An inbound packet after JSON.parse.  An event packet is an object with an
\* event name; a channel packet is the array
\*   [chanId, tag (if tag # ""), body (if hasBody), ...trail]
\* where a body is an array: a row of numbers (shape "row"), a non-empty list
\* of rows (shape "rows") or the empty array (shape "empty"), and b1 is the
\* string at body[1] ("" when body[1] is no string).
NoBody == [shape |-> "empty", rows |-> <<>>, b1 |-> ""]
Row(r) == [shape |-> "row", rows |-> <<r>>, b1 |-> ""]
Rows(rs) == [shape |-> "rows", rows |-> rs, b1 |-> ""]
Note(type) == [shape |-> "row", rows |-> <<<<>>>>, b1 |-> type]
\* A notification about an order: [mts, type, msgId, null, order, code, status, text]
OrderNote(type, id, cid, status) ==
  [shape |-> "row", rows |-> <<<<>>>>, b1 |-> type,
   order |-> [id |-> id, cid |-> cid], status |-> status]

EventPacket(event, status, chanId, chan) ==
  [kind |-> "event", event |-> event, status |-> status, version |-> 0,
   chanId |-> chanId, chan |-> chan, tag |-> "", hasBody |-> FALSE, body |-> NoBody, trail |-> <<>>]

ChanPacket(chanId, tag, hasBody, body, trail) ==
  [kind |-> "chan", event |-> "", status |-> "", version |-> 0, chanId |-> chanId,
   chan |-> Chan("", "", "", "", ""), tag |-> tag, hasBody |-> hasBody,
   body |-> body, trail |-> trail]

\* The array's elements, each with its JS type.
Items(msg) ==
  <<[t |-> "number", v |-> msg.chanId]>>
  \o (IF msg.tag # "" THEN <<[t |-> "string", v |-> 0]>> ELSE <<>>)
  \o (IF msg.hasBody THEN <<[t |-> "array", v |-> 0]>> ELSE <<>>)
  \o [i \in 1..Len(msg.trail) |-> [t |-> "number", v |-> msg.trail[i]]]

\* msg[i] as a number; not finite when it is absent or no number.
NaN == [t |-> "NaN", v |-> 0]
ItemAt(msg, i) ==
  IF i >= 0 /\ i < Len(Items(msg)) /\ Items(msg)[i + 1].t = "number"
  THEN Items(msg)[i + 1] ELSE NaN
isFinite(x) == x.t = "number"

\* `${(msg[2] || [])[1] || ''}`.slice(-4) === '-req'
ReqTypes == {"on-req", "oc-req", "ou-req"}
Msg2EndsWithReq(msg) ==
  msg.tag # "" /\ msg.hasBody /\ msg.body.b1 \in ReqTypes

\* getMessagePayload (msg)
getMessagePayload(msg) == msg.body

\* ----------------------------------------------------- sequence audit
\* _validateMessageSeq() storing the public sequence number before checking it.
validateMessageSeq_StoresBeforeCheck(s0, msg) ==
  LET s == [seqAudit |-> s0.seqAudit, lastPubSeq |-> s0.lastPubSeq,
            lastAuthSeq |-> s0.lastAuthSeq, err |-> ""]
      len == Len(Items(msg))
      seq == IF msg.chanId = 0 /\ msg.tag # "hb"
                /\ ~(msg.tag = "n" /\ Msg2EndsWithReq(msg))
             THEN ItemAt(msg, len - 2) ELSE ItemAt(msg, len - 1)
  IN
  IF ~s.seqAudit \/ msg.kind # "chan" \/ len = 0 THEN s
  ELSE IF Msg2EndsWithReq(msg) \/ ~isFinite(seq) THEN s
  ELSE IF s.lastPubSeq = UNSET THEN [s EXCEPT !.lastPubSeq = seq.v]
  ELSE IF seq.v # s.lastPubSeq + 1
       THEN [s EXCEPT !.lastPubSeq = seq.v, !.err = "invalid pub seq #"]
  ELSE [s EXCEPT !.lastPubSeq = seq.v]

\* _validateMessageSeq() storing the public sequence number only once the
\* auth sequence number has passed.
validateMessageSeq_StoresAfterAuth(s0, msg) ==
  LET s == [seqAudit |-> s0.seqAudit, lastPubSeq |-> s0.lastPubSeq,
            lastAuthSeq |-> s0.lastAuthSeq, err |-> ""]
      len == Len(Items(msg))
      authSeq == IF msg.chanId = 0 /\ msg.tag # "hb"
                 THEN ItemAt(msg, len - 1) ELSE NaN
      seq == IF msg.chanId = 0 /\ msg.tag # "hb"
                /\ ~(msg.tag = "n" /\ Msg2EndsWithReq(msg))
             THEN ItemAt(msg, len - 2) ELSE ItemAt(msg, len - 1)
      authPart(p) ==
        IF ~isFinite(authSeq) THEN p
        ELSE IF authSeq.v = 0 THEN p
        ELSE IF msg.tag = "n"
             THEN IF authSeq.v # p.lastAuthSeq
                  THEN [p EXCEPT !.err = "invalid auth seq #, expected no advancement"]
                  ELSE p
        ELSE IF authSeq.v = p.lastAuthSeq
             THEN [p EXCEPT !.err = "expected auth seq # advancement but got same seq"]
        ELSE IF p.lastAuthSeq # UNSET /\ authSeq.v # p.lastAuthSeq + 1
             THEN [p EXCEPT !.err = "invalid auth seq #"]
        ELSE [p EXCEPT !.lastAuthSeq = authSeq.v]
      stored(p) == IF p.err = "" THEN [p EXCEPT !.lastPubSeq = seq.v] ELSE p
  IN
  IF ~s.seqAudit \/ msg.kind # "chan" \/ len = 0 THEN s
  ELSE IF ~Msg2EndsWithReq(msg)
       THEN IF ~isFinite(seq) THEN s
            ELSE IF s.lastPubSeq = UNSET THEN [s EXCEPT !.lastPubSeq = seq.v]
            ELSE IF seq.v # s.lastPubSeq + 1
                 THEN [s EXCEPT !.err = "invalid pub seq #"]
            ELSE stored(authPart(s))
       ELSE authPart(s)

\* _validateMessageSeq() auditing a notification's auth sequence number like
\* any other account packet's.
validateMessageSeq_NotificationsAdvance(s0, msg) ==
  LET s == [seqAudit |-> s0.seqAudit, lastPubSeq |-> s0.lastPubSeq,
            lastAuthSeq |-> s0.lastAuthSeq, err |-> ""]
      len == Len(Items(msg))
      authSeq == IF msg.chanId = 0 /\ msg.tag # "hb"
                 THEN ItemAt(msg, len - 1) ELSE NaN
      seq == IF msg.chanId = 0 /\ msg.tag # "hb"
                /\ ~(msg.tag = "n" /\ Msg2EndsWithReq(msg))
             THEN ItemAt(msg, len - 2) ELSE ItemAt(msg, len - 1)
      authPart(p) ==
        IF ~isFinite(authSeq) THEN p
        ELSE IF authSeq.v = 0 THEN p
        ELSE IF authSeq.v = p.lastAuthSeq
             THEN [p EXCEPT !.err = "expected auth seq # advancement but got same seq"]
        ELSE IF p.lastAuthSeq # UNSET /\ authSeq.v # p.lastAuthSeq + 1
             THEN [p EXCEPT !.err = "invalid auth seq #"]
        ELSE [p EXCEPT !.lastAuthSeq = authSeq.v]
  IN
  IF ~s.seqAudit \/ msg.kind # "chan" \/ len = 0 THEN s
  ELSE IF ~Msg2EndsWithReq(msg)
       THEN IF ~isFinite(seq) THEN s
            ELSE IF s.lastPubSeq = UNSET THEN [s EXCEPT !.lastPubSeq = seq.v]
            ELSE IF seq.v # s.lastPubSeq + 1
                 THEN [s EXCEPT !.err = "invalid pub seq #"]
            ELSE authPart([s EXCEPT !.lastPubSeq = seq.v])
       ELSE authPart(s)

\* _validateMessageSeq() returning null for every heartbeat packet.
validateMessageSeq_SkipsHeartbeats(s0, msg) ==
  LET s == [seqAudit |-> s0.seqAudit, lastPubSeq |-> s0.lastPubSeq,
            lastAuthSeq |-> s0.lastAuthSeq, err |-> ""]
      len == Len(Items(msg))
      seq == IF msg.chanId = 0 /\ ~(msg.tag = "n" /\ Msg2EndsWithReq(msg))
             THEN ItemAt(msg, len - 2) ELSE ItemAt(msg, len - 1)
  IN
  IF ~s.seqAudit \/ msg.kind # "chan" \/ len = 0 THEN s
  ELSE IF msg.tag = "hb" THEN s
  ELSE IF Msg2EndsWithReq(msg) \/ ~isFinite(seq) THEN s
  ELSE IF s.lastPubSeq = UNSET THEN [s EXCEPT !.lastPubSeq = seq.v]
  ELSE IF seq.v # s.lastPubSeq + 1 THEN [s EXCEPT !.err = "invalid pub seq #"]
  ELSE [s EXCEPT !.lastPubSeq = seq.v]

\* _validateMessageSeq (msg): the two counters afterwards and the error
\* returned ("" for null).
validateMessageSeq(s0, msg) ==
  LET s == [seqAudit |-> s0.seqAudit, lastPubSeq |-> s0.lastPubSeq,
            lastAuthSeq |-> s0.lastAuthSeq, err |-> ""]
      len == Len(Items(msg))
      authSeq == IF msg.chanId = 0 /\ msg.tag # "hb"
                 THEN ItemAt(msg, len - 1) ELSE NaN
      seq == IF msg.chanId = 0 /\ msg.tag # "hb"
                /\ ~(msg.tag = "n" /\ Msg2EndsWithReq(msg))
             THEN ItemAt(msg, len - 2) ELSE ItemAt(msg, len - 1)
      \* the authenticated part, entered with the public counter as in p
      authPart(p) ==
        IF ~isFinite(authSeq) THEN p
        ELSE IF authSeq.v = 0 THEN p
        ELSE IF msg.tag = "n"
             THEN IF authSeq.v # p.lastAuthSeq
                  THEN [p EXCEPT !.err = "invalid auth seq #, expected no advancement"]
                  ELSE p
        ELSE IF authSeq.v = p.lastAuthSeq
             THEN [p EXCEPT !.err = "expected auth seq # advancement but got same seq"]
        ELSE IF p.lastAuthSeq # UNSET /\ authSeq.v # p.lastAuthSeq + 1
             THEN [p EXCEPT !.err = "invalid auth seq #"]
        ELSE [p EXCEPT !.lastAuthSeq = authSeq.v]
  IN
  IF ~s.seqAudit THEN s
  ELSE IF msg.kind # "chan" THEN s
  ELSE IF len = 0 THEN s
  ELSE IF ~Msg2EndsWithReq(msg)
       THEN IF ~isFinite(seq) THEN s
            ELSE IF s.lastPubSeq = UNSET THEN [s EXCEPT !.lastPubSeq = seq.v]
            ELSE IF seq.v # s.lastPubSeq + 1
                 THEN [s EXCEPT !.err = "invalid pub seq #"]
            ELSE authPart([s EXCEPT !.lastPubSeq = seq.v])
       ELSE authPart(s)

\* --------------------------------------------------- listener registry
\* A filter is null or a map from a payload index to the value wanted there;
\* a value is a string, a number or undefined (an option not given).
NoFilter == [isNull |-> TRUE, at |-> EmptyMap]
Filter(at) == [isNull |-> FALSE, at |-> at]
Str(v) == [t |-> "string", v |-> v]
Undefined == [t |-> "undefined", v |-> ""]
Num(n) == [t |-> "number", n |-> n]

\* _registerListener (eventName, filter, modelClass, cbGID, cb): a group is the
\* sequence of its listeners in registration order; cbGID 0 is no cbGID (the
\* key 'null').
registerListener(s, eventName, filter, cbGID, cb) ==
  LET l == [eventName |-> eventName, filter |-> filter, cb |-> cb]
  IN [s EXCEPT !.listeners =
        Put(@, cbGID, IF Has(@, cbGID) THEN Append(@[cbGID], l) ELSE <<l>>)]

\* onMessage ({ cbGID }, cb)
onMessage(s, cbGID, cb) == registerListener(s, "", NoFilter, cbGID, cb)

\* onTicker ({ symbol = '', cbGID }, cb)
onTicker(s, symbol, cbGID, cb) ==
  registerListener(s, "ticker", Filter(0 :> Str(symbol)), cbGID, cb)

\* onPositionSnapshot ({ symbol, cbGID }, cb)
onPositionSnapshot(s, symbol, cbGID, cb) ==
  registerListener(s, "ps", Filter(0 :> Str(symbol)), cbGID, cb)

\* onPositionUpdate ({ symbol, cbGID }, cb)
onPositionUpdate(s, symbol, cbGID, cb) ==
  registerListener(s, "pu", Filter(0 :> Str(symbol)), cbGID, cb)

\* onOrderNew ({ symbol, id, cid, gid, cbGID }, cb): each option is a
\* string, a number or undefined.
onOrderNew(s, symbol, id, cid, gid, cbGID, cb) ==
  registerListener(s, "on",
                   Filter(0 :> id @@ 1 :> gid @@ 2 :> cid @@ 3 :> symbol), cbGID, cb)

\* onOrderBookChecksum ({ symbol, prec, len, cbGID }, cb)
onOrderBookChecksum(s, symbol, prec, len, cbGID, cb) ==
  registerListener(s, "ob_checksum",
                   Filter(0 :> Str(symbol) @@ 1 :> Str(prec) @@ 2 :> Str(len)), cbGID, cb)

\* _payloadPassesFilter() letting every payload pass.
payloadPassesFilter_PassesAll(payload, filter) == TRUE

\* _payloadPassesFilter (payload, filter): _isEmpty holds of '', of undefined
\* and of every number.
payloadPassesFilter(payload, filter) ==
  \A k \in DOMAIN filter.at :
    LET filterValue == filter.at[k] IN
    \/ filterValue.t # "string" \/ filterValue.v = "" \/ filterValue.v = "*"
    \/ (k + 1 <= Len(payload) /\ payload[k + 1] = filterValue.v)

\* The call of a listener's cb: by the catch-all with the packet, otherwise
\* with the packet's data.
CbCall(cbGID, l, catchAll, msg) ==
  [cbGID |-> cbGID, cb |-> l.cb, catchAll |-> catchAll, msg |-> msg]

\* _notifyCatchAllListeners() calling the first catch-all listener only.
notifyCatchAllListeners_FirstOnly(cbGID, lGroup, msg) ==
  LET all == SelectSeq(lGroup, LAMBDA l : l.eventName = "")
  IN IF all = <<>> THEN <<>> ELSE <<CbCall(cbGID, all[1], TRUE, msg)>>

\* _notifyCatchAllListeners (lGroup, data): the calls made.
notifyCatchAllListeners(cbGID, lGroup, msg) ==
  LET all == SelectSeq(lGroup, LAMBDA l : l.eventName = "")
  IN [j \in 1..Len(all) |-> CbCall(cbGID, all[j], TRUE, msg)]

\* _notifyListenerGroup (lGroup, msg, transform, ws, chanData): the calls made.
notifyListenerGroup(cbGID, lGroup, msg) ==
  LET data == msg.data
      single == IF data.shape = "row" THEN data.rows[1] ELSE <<>>
      overridden == msg.filterOverride # <<>>
      passes(l) ==
        IF l.filter.isNull THEN TRUE
        ELSE IF data.shape = "rows"
        THEN \E i \in 1..Len(data.rows) :
               payloadPassesFilter(IF overridden THEN msg.filterOverride
                                   ELSE data.rows[i], l.filter)
        ELSE payloadPassesFilter(IF overridden THEN msg.filterOverride
                                 ELSE single, l.filter)
      named == IF msg.eventName = "" THEN <<>>
               ELSE SelectSeq(lGroup, LAMBDA l : l.eventName = msg.eventName)
      matching == SelectSeq(named, passes)
  IN notifyCatchAllListeners(cbGID, lGroup, msg)
     \o [j \in 1..Len(matching) |-> CbCall(cbGID, matching[j], FALSE, msg)]

\* Object.values(this._listeners): the integer keys ascending, then 'null'.
RECURSIVE GroupOrder(_)
GroupOrder(ids) ==
  IF ids = {} THEN <<>>
  ELSE LET g == IF ids = {0} THEN 0
                ELSE CHOOSE x \in ids \ {0} : \A y \in ids \ {0} : x <= y
       IN <<g>> \o GroupOrder(ids \ {g})

\* All listeners, group after group.
RECURSIVE FlatListeners(_, _)
FlatListeners(ls, order) ==
  IF order = <<>> THEN <<>>
  ELSE ls[Head(order)] \o FlatListeners(ls, Tail(order))

RECURSIVE notifyGroups(_, _, _)
notifyGroups(ls, order, msg) ==
  IF order = <<>> THEN <<>>
  ELSE notifyListenerGroup(Head(order), ls[Head(order)], msg)
       \o notifyGroups(ls, Tail(order), msg)

\* _propagateMessageToListeners (msg, chan): the packet handed to the
\* listener groups, and the calls they make.
propagateMessageToListeners(s, chanId, eventName, data, filterOverride) ==
  LET msg == [chanId |-> chanId, eventName |-> eventName,
              data |-> data, filterOverride |-> filterOverride]
  IN [s EXCEPT !.propagated = Append(@, msg),
               !.invoked = @ \o notifyGroups(s.listeners,
                                             GroupOrder(DOMAIN s.listeners), msg)]

\* A number as a packet's data.
NumberData(v) == [shape |-> "number", rows |-> <<>>, b1 |-> "", v |-> v]

\* An array of rows as a packet's data.
ListData(rows) ==
  IF rows = <<>> THEN [shape |-> "empty", rows |-> <<>>, b1 |-> ""]
  ELSE [shape |-> "rows", rows |-> rows, b1 |-> ""]

\* ------------------------------------------------------ managed stores

\* Array.prototype.sort((a, b) => b[0] - a[0]): stable, descending by row[1].
RECURSIVE InsertDesc(_, _)
InsertDesc(sorted, r) ==
  IF sorted = <<>> THEN <<r>>
  ELSE IF Head(sorted)[1] >= r[1] THEN <<Head(sorted)>> \o InsertDesc(Tail(sorted), r)
  ELSE <<r>> \o sorted

RECURSIVE SortDesc(_)
SortDesc(rows) ==
  IF rows = <<>> THEN <<>>
  ELSE InsertDesc(SortDesc(SubSeq(rows, 1, Len(rows) - 1)), rows[Len(rows)])

\* data[0] of a row; undefined (-1 here, open-times being >= 0) for [].
RowKey(r) == IF r = <<>> THEN UNSET ELSE r[1]

\* _updateManagedCandles() pushing a candle with a new open-time at the end.
updateManagedCandles_Appends(cs, key, data) ==
  IF data.shape = "rows"
  THEN [candles |-> Put(cs, key, SortDesc(data.rows)), err |-> ""]
  ELSE IF ~Has(cs, key)
  THEN [candles |-> cs, err |-> "recv update for unknown candles"]
  ELSE
    LET old == cs[key]
        r == IF data.shape = "empty" THEN <<>> ELSE data.rows[1]
        hits == {i \in 1..Len(old) : RowKey(old[i]) = RowKey(r)}
    IN IF hits # {}
       THEN LET i == CHOOSE x \in hits : \A y \in hits : x <= y
            IN [candles |-> Put(cs, key, [old EXCEPT ![i] = r]), err |-> ""]
       ELSE [candles |-> Put(cs, key, Append(old, r)), err |-> ""]

\* _updateManagedCandles (key, data): the candle map afterwards, and the error.
updateManagedCandles(cs, key, data) ==
  IF data.shape = "rows"
  THEN [candles |-> Put(cs, key, SortDesc(data.rows)), err |-> ""]
  ELSE IF ~Has(cs, key)
  THEN [candles |-> cs, err |-> "recv update for unknown candles"]
  ELSE
    LET old == cs[key]
        r == IF data.shape = "empty" THEN <<>> ELSE data.rows[1]
        hits == {i \in 1..Len(old) : RowKey(old[i]) = RowKey(r)}
    IN IF hits # {}
       THEN LET i == CHOOSE x \in hits : \A y \in hits : x <= y
            IN [candles |-> Put(cs, key, [old EXCEPT ![i] = r]), err |-> ""]
       ELSE [candles |-> Put(cs, key, <<r>> \o old), err |-> ""]

\* _handleCandleMessage (msg, chanData)
handleCandleMessage(s, msg, chanData) ==
  LET data == getMessagePayload(msg)
      upd == updateManagedCandles(s.candles, chanData.key, data)
  IN IF s.manageCandles
     THEN IF upd.err # "" THEN emit(s, "error")
          ELSE emit(propagateMessageToListeners(
                      [s EXCEPT !.candles = upd.candles], msg.chanId, "candle",
                      ListData(upd.candles[chanData.key]), <<chanData.key>>), "candle")
     ELSE emit(propagateMessageToListeners(s, msg.chanId, "candle",
                 ListData(data.rows), <<chanData.key>>), "candle")

\* A wire number is a JSON numeral: v is its value and lex tells apart the
\* numerals of one value (1 and 1.0).  JSON.parse keeps v; LosslessJSON keeps
\* the numeral.
Parsed(row) == [i \in 1..Len(row) |-> row[i].v]
Lossless(row) == row

\* OrderBook.updateArrayOBWith (ob, entry, raw) of bfx-api-node-models, for an
\* aggregated trading book of [price, count, amount] levels: count 0 removes
\* the level of that price and side; otherwise the level replaces the one of
\* its price and side or is inserted, bids first by descending price, then
\* asks by ascending price.  raw: the levels hold numerals, not numbers.
updateArrayOBWith(ob, entry, raw) ==
  LET val(x) == IF raw THEN x.v ELSE x
      price == val(entry[1])
      count == val(entry[2])
      bid == val(entry[3]) > 0
      same(l) == val(l[1]) = price /\ (val(l[3]) > 0) = bid
      before(l) == IF val(l[3]) > 0
                   THEN (bid => val(l[1]) > price)
                   ELSE (~bid /\ val(l[1]) < price)
      others == SelectSeq(ob, LAMBDA l : ~same(l))
  IN IF count = 0 THEN others
     ELSE SelectSeq(others, before) \o <<entry>>
          \o SelectSeq(others, LAMBDA l : ~before(l))

\* _updateManagedOB (symbol, data, raw, rawMsg): both book maps afterwards,
\* and the error.  data is the parsed payload, the lossless update the same
\* payload with its numerals kept.
updateManagedOB(s, symbol, body) ==
  IF body.shape = "rows"
  THEN [orderBooks |-> Put(s.orderBooks, symbol,
                           [i \in 1..Len(body.rows) |-> Parsed(body.rows[i])]),
        losslessOrderBooks |-> Put(s.losslessOrderBooks, symbol,
                           [i \in 1..Len(body.rows) |-> Lossless(body.rows[i])]),
        err |-> ""]
  ELSE IF ~Has(s.orderBooks, symbol)
  THEN [orderBooks |-> s.orderBooks, losslessOrderBooks |-> s.losslessOrderBooks,
        err |-> "recv update for unknown OB"]
  ELSE [orderBooks |-> Put(s.orderBooks, symbol,
           updateArrayOBWith(s.orderBooks[symbol], Parsed(body.rows[1]), FALSE)),
        losslessOrderBooks |-> Put(s.losslessOrderBooks, symbol,
           updateArrayOBWith(s.losslessOrderBooks[symbol], Lossless(body.rows[1]), TRUE)),
        err |-> ""]

\* _handleOBMessage (msg, chanData, rawMsg)
handleOBMessage(s, msg, chanData) ==
  LET body == getMessagePayload(msg)
      upd == updateManagedOB(s, chanData.symbol, body)
      fo == <<chanData.symbol, chanData.prec, chanData.len>>
  IN IF s.manageOrderBooks
     THEN IF upd.err # "" THEN emit(s, "error")
          ELSE emit(propagateMessageToListeners(
                      [s EXCEPT !.orderBooks = upd.orderBooks,
                                !.losslessOrderBooks = upd.losslessOrderBooks],
                      msg.chanId, "orderbook", ListData(upd.orderBooks[chanData.symbol]), fo),
                    "orderbook")
     ELSE emit(propagateMessageToListeners(s, msg.chanId, "orderbook",
                 [body EXCEPT !.rows = [i \in 1..Len(body.rows) |-> Parsed(body.rows[i])]],
                 fo), "orderbook")

\* symbol[0]
FirstChar(symbol) ==
  IF symbol \in {"tBTCUSD", "tETHUSD"} THEN "t"
  ELSE IF symbol \in {"fUSD"} THEN "f" ELSE ""

\* The hash OrderBook.checksumArr takes of its string, one numeral after the
\* other.
RECURSIVE Hash(_, _)
Hash(h, numerals) ==
  IF numerals = <<>> THEN h
  ELSE Hash((h * 31 + 2 * Head(numerals).v + Head(numerals).lex + 1) % 65536,
            Tail(numerals))

\* OrderBook.checksumArr (ob, raw) of bfx-api-node-models, for an aggregated
\* book: the hash of price and amount of the i-th bid, then of the i-th ask,
\* for the 25 best levels of each side, each numeral as the book holds it.
checksumArr(ob, raw) ==
  LET bids == SelectSeq(ob, LAMBDA l : l[Len(l)].v > 0)
      asks == SelectSeq(ob, LAMBDA l : l[Len(l)].v <= 0)
      side(ls, i) == IF i <= Len(ls) THEN <<ls[i][1], ls[i][Len(ls[i])]>> ELSE <<>>
      pairs[i \in 0..25] == IF i = 0 THEN <<>>
                            ELSE pairs[i - 1] \o side(bids, i) \o side(asks, i)
  IN Hash(0, pairs[25])

\* _verifyManagedOBChecksum() that finds every checksum right.
verifyManagedOBChecksum_NeverFails(s, symbol, prec, cs) == ""

\* _verifyManagedOBChecksum (symbol, prec, cs): the error
verifyManagedOBChecksum(s, symbol, prec, cs) ==
  IF ~Has(s.losslessOrderBooks, symbol) THEN ""
  ELSE IF [t |-> "number", v |-> checksumArr(s.losslessOrderBooks[symbol], prec = "R0")] # cs
  THEN "OB checksum mismatch"
  ELSE ""

\* _handleOBChecksumMessage (msg, chanData)
handleOBChecksumMessage(s, msg, chanData) ==
  LET s1 == emit(s, "cs")
      cs == ItemAt(msg, 2)
      err == IF FirstChar(chanData.symbol) = "t"
             THEN verifyManagedOBChecksum(s1, chanData.symbol, chanData.prec, cs)
             ELSE ""
  IN IF ~s.manageOrderBooks THEN s1
     ELSE IF err # "" THEN emit(s1, "error")
     ELSE emit(propagateMessageToListeners(s1, msg.chanId, "ob_checksum",
                 NumberData(cs.v), <<chanData.symbol, chanData.prec, chanData.len>>),
               "cs")

\* _handleTickerMessage (msg, chanData)
handleTickerMessage(s, msg, chanData) ==
  emit(propagateMessageToListeners(s, msg.chanId, "ticker",
         getMessagePayload(msg), <<chanData.symbol>>), "ticker")

\* _handleTradeMessage (msg, chanData)
handleTradeMessage(s, msg, chanData) ==
  emit(propagateMessageToListeners(s, msg.chanId,
         IF msg.tag = "te" THEN "trade-entry" ELSE "trades",
         LET payload == getMessagePayload(msg) IN
         IF payload.shape = "rows" THEN payload
         ELSE ListData(<<IF payload.shape = "row" THEN payload.rows[1] ELSE <<>>>>),
         <<chanData.symbol>>), "trades")

\* _handleStatusMessage (msg, chanData)
handleStatusMessage(s, msg, chanData) ==
  emit(propagateMessageToListeners(s, msg.chanId, "status",
         getMessagePayload(msg), <<chanData.key>>), "status")

\* _handleAuthMessage (msg, chanData)
handleAuthMessage(s, msg, chanData) ==
  propagateMessageToListeners(
    IF msg.tag = "n" /\ msg.hasBody THEN onWSNotification(s, getMessagePayload(msg))
    ELSE s,
    msg.chanId,
    IF msg.tag = "te" THEN "auth-te" ELSE IF msg.tag = "tu" THEN "auth-tu" ELSE msg.tag,
    getMessagePayload(msg), <<>>)

\* _handleChannelMessage() without the heartbeat check.
handleChannelMessage_ForwardsHeartbeats(s, msg) ==
  IF ~Has(s.channelMap, msg.chanId) THEN s
  ELSE IF Len(Items(msg)) < 2 THEN s
  ELSE
    LET chanData == s.channelMap[msg.chanId] IN
    CASE chanData.channel = "book" ->
           IF msg.tag = "cs" THEN handleOBChecksumMessage(s, msg, chanData)
           ELSE handleOBMessage(s, msg, chanData)
      [] chanData.channel = "trades" -> handleTradeMessage(s, msg, chanData)
      [] chanData.channel = "ticker" -> handleTickerMessage(s, msg, chanData)
      [] chanData.channel = "candles" -> handleCandleMessage(s, msg, chanData)
      [] chanData.channel = "status" -> handleStatusMessage(s, msg, chanData)
      [] chanData.channel = "auth" -> handleAuthMessage(s, msg, chanData)
      [] OTHER -> emit(propagateMessageToListeners(s, msg.chanId, msg.tag,
                         getMessagePayload(msg), <<>>), chanData.channel)

\* _handleChannelMessage (msg, rawMsg)
handleChannelMessage(s, msg) ==
  IF ~Has(s.channelMap, msg.chanId) THEN s
  ELSE IF Len(Items(msg)) < 2 THEN s
  ELSE IF msg.tag = "hb" THEN s
  ELSE
    LET chanData == s.channelMap[msg.chanId] IN
    CASE chanData.channel = "book" ->
           IF msg.tag = "cs" THEN handleOBChecksumMessage(s, msg, chanData)
           ELSE handleOBMessage(s, msg, chanData)
      [] chanData.channel = "trades" -> handleTradeMessage(s, msg, chanData)
      [] chanData.channel = "ticker" -> handleTickerMessage(s, msg, chanData)
      [] chanData.channel = "candles" -> handleCandleMessage(s, msg, chanData)
      [] chanData.channel = "status" -> handleStatusMessage(s, msg, chanData)
      [] chanData.channel = "auth" -> handleAuthMessage(s, msg, chanData)
      [] OTHER -> emit(propagateMessageToListeners(s, msg.chanId, msg.tag,
                         getMessagePayload(msg), <<>>), chanData.channel)

\* ------------------------------------------------------ event packets
\* _handleAuthEvent() that takes any auth event for a confirmation.
handleAuthEvent_IgnoresStatus(s, msg) ==
  LET s1 == [s EXCEPT !.channelMap = Put(@, msg.chanId, Chan("auth", "", "", "", "")),
                      !.isAuthenticated = TRUE]
  IN settle([emit(s1, "auth") EXCEPT !.authWaiters = <<>>], s1.authWaiters)

\* _handleAuthEvent (data): emit('auth') runs the once-listeners that auth()
\* and reconnect() left.
handleAuthEvent(s, msg) ==
  IF msg.status # "OK" THEN emit(s, "error")
  ELSE LET s1 == [s EXCEPT !.channelMap = Put(@, msg.chanId, Chan("auth", "", "", "", "")),
                           !.isAuthenticated = TRUE]
       IN settle([emit(s1, "auth") EXCEPT !.authWaiters = <<>>], s1.authWaiters)

\* _handleSubscribedEvent (msg)
handleSubscribedEvent(s, msg) ==
  emit([s EXCEPT !.channelMap = Put(@, msg.chanId, msg.chan)], "subscribed")

\* _handleUnsubscribedEvent (msg)
handleUnsubscribedEvent(s, msg) ==
  emit([s EXCEPT !.channelMap = Del(@, msg.chanId)], "unsubscribed")

\* _handleInfoEvent (msg): a version other than 2 is reported and the
\* connection closed; close()'s rejection is caught.
handleInfoEvent(s, msg) ==
  IF msg.version # 0
  THEN IF msg.version # 2
       THEN LET s1 == emit(s, "error")
                s2 == close(s1, Waiter("infoClose", s1))
            IN [s2 EXCEPT !.thrown = ""]
       ELSE emit(s, "info")
  ELSE emit(s, "info")

\* _handleEventMessage (msg)
handleEventMessage(s, msg) ==
  CASE msg.event = "auth" -> handleAuthEvent(s, msg)
    [] msg.event = "subscribed" -> handleSubscribedEvent(s, msg)
    [] msg.event = "unsubscribed" -> handleUnsubscribedEvent(s, msg)
    [] msg.event = "info" -> handleInfoEvent(s, msg)
    [] msg.event = "conf" -> handleConfigEvent(s, msg)
    [] msg.event = "error" -> emit(s, "error")
    [] msg.event = "pong" -> emit(s, "pong")
    [] OTHER -> s

\* _onWSMessage() reporting the audit's error without returning.
onWSMessage_ForwardsAfterError(s, msg) ==
  LET s1 == resetPacketWD(s)
      audit == validateMessageSeq(s1, msg)
      s2 == [s1 EXCEPT !.lastPubSeq = audit.lastPubSeq,
                       !.lastAuthSeq = audit.lastAuthSeq]
      s3 == emit(IF s1.seqAudit /\ audit.err # "" THEN emit(s2, "error")
                 ELSE IF s1.seqAudit THEN s2 ELSE s1, "message")
  IN IF msg.kind = "chan" THEN handleChannelMessage(s3, msg)
     ELSE IF msg.event # "" THEN handleEventMessage(s3, msg)
     ELSE s3

\* _onWSMessage (rawMsg, flags)
onWSMessage(s, msg) ==
  LET s1 == resetPacketWD(s)
      audit == validateMessageSeq(s1, msg)
      s2 == [s1 EXCEPT !.lastPubSeq = audit.lastPubSeq,
                       !.lastAuthSeq = audit.lastAuthSeq]
  IN IF s1.seqAudit /\ audit.err # "" THEN emit(s2, "error")
     ELSE LET s3 == emit(IF s1.seqAudit THEN s2 ELSE s1, "message") IN
          IF msg.kind = "chan" THEN handleChannelMessage(s3, msg)
          ELSE IF msg.event # "" THEN handleEventMessage(s3, msg)
          ELSE s3

\* ------------------------------------------------------------ actions
ListenerCount(ls) == Len(FlatListeners(ls, GroupOrder(DOMAIN ls)))

Bounded(s) ==
  /\ ListenerCount(s.listeners) <= MaxListeners
  /\ Cardinality(DOMAIN s.eventCallbacks) <= MaxOrderOps
  /\ \A key \in DOMAIN s.eventCallbacks : Len(s.eventCallbacks[key]) <= MaxPending
  /\ \A key \in DOMAIN s.subscriptionRefs : s.subscriptionRefs[key] <= MaxRefs
  /\ Len(s.sockets) <= MaxSockets
  /\ Len(s.closeWaiters) <= MaxCloseCalls
  /\ Len(s.openWaiters) <= MaxWaiters
  /\ Len(s.authWaiters) <= MaxWaiters

Do(s) == Bounded(s) /\ Commit(s)

Live(k) == k \in 1..Len(sockets) /\ sockets[k].state # "closed"

\* the user calls open()
UserOpen == Do(open(Begin("open", NoPacket), "open"))

\* the user calls close()
UserClose == Do(close(Begin("close", NoPacket), Waiter("close", This)))

\* the user calls auth()
UserAuth == Do(auth(Begin("auth", NoPacket), Waiter("auth", This)))

\* the user calls reconnect()
UserReconnect == Do(reconnect(Begin("reconnect", NoPacket), 0))

\* A call of the public API: its name and arguments.
Call(channel, identifier) ==
  [kind |-> "call", channel |-> channel, identifier |-> identifier]

\* the user calls subscribeTicker(symbol)
UserSubscribeTicker(symbol) ==
  Do(subscribeTicker(Begin("managedSubscribe", Call("ticker", symbol)), symbol))

\* the user calls subscribeOrderBook(symbol)
UserSubscribeOrderBook(symbol) ==
  Do(subscribeOrderBook(Begin("managedSubscribe", Call("book", symbol)), symbol, "", ""))

\* the user calls subscribe('book', { symbol, prec, len: '25' })
UserSubscribeBookRaw(symbol, prec) ==
  Do(subscribe(Begin("subscribe", Call("book", symbol)), "book",
               [symbol |-> symbol, len |-> "25", prec |-> prec]))

\* the user calls unsubscribeTicker(symbol)
UserUnsubscribeTicker(symbol) ==
  Do(unsubscribeTicker(Begin("managedUnsubscribe", Call("ticker", symbol)), symbol))

\* the user calls unsubscribeOrderBook(symbol)
UserUnsubscribeOrderBook(symbol) ==
  Do(unsubscribeOrderBook(Begin("managedUnsubscribe", Call("book", symbol)), symbol))

\* A registration: the listener's kind and arguments; the callback is named
\* by its rank among the registrations.
Registration(name, symbol, cbGID) ==
  [kind |-> "register", name |-> name, symbol |-> symbol, cbGID |-> cbGID]
NextCb == ListenerCount(listeners) + 1

\* the user calls onMessage({ cbGID }, cb)
UserOnMessage(cbGID) ==
  Do(onMessage(Begin("onMessage", Registration("onMessage", "", cbGID)), cbGID, NextCb))

\* the user calls onTicker({ symbol, cbGID }, cb)
UserOnTicker(symbol, cbGID) ==
  Do(onTicker(Begin("onTicker", Registration("onTicker", symbol, cbGID)),
              symbol, cbGID, NextCb))

\* the user calls onOrderBookChecksum({ symbol, prec, len, cbGID }, cb)
UserOnOrderBookChecksum(symbol, cbGID) ==
  Do(onOrderBookChecksum(
       Begin("onOrderBookChecksum", Registration("onOrderBookChecksum", symbol, cbGID)),
       symbol, "P0", "25", cbGID, NextCb))

\* the user calls onPositionSnapshot({ symbol, cbGID }, cb)
UserOnPositionSnapshot(symbol, cbGID) ==
  Do(onPositionSnapshot(
       Begin("onPositionSnapshot", Registration("onPositionSnapshot", symbol, cbGID)),
       symbol, cbGID, NextCb))

\* the user calls onPositionUpdate({ symbol, cbGID }, cb)
UserOnPositionUpdate(symbol, cbGID) ==
  Do(onPositionUpdate(
       Begin("onPositionUpdate", Registration("onPositionUpdate", symbol, cbGID)),
       symbol, cbGID, NextCb))

\* the user calls onOrderNew({ symbol, id, cid, cbGID }, cb), gid not given
UserOnOrderNew(symbol, id, cid, cbGID) ==
  Do(onOrderNew(
       Begin("onOrderNew",
             [kind |-> "register", name |-> "onOrderNew", symbol |-> symbol,
              id |-> id, cid |-> cid, cbGID |-> cbGID]),
       symbol, id, cid, Undefined, cbGID, NextCb))

\* A call of an order command: its name and the ids of its orders.
OrderCall(name, ids) == [kind |-> "order", name |-> name, ids |-> ids]

\* the user calls submitOrder(order) with order.cid = cid
UserSubmitOrder(cid) ==
  Do(submitOrder(Begin("submitOrder", OrderCall("submitOrder", <<cid>>)), cid))

\* the user calls updateOrder(changes) with changes.id = id (0: no id)
UserUpdateOrder(id) ==
  Do(updateOrder(Begin("updateOrder", OrderCall("updateOrder", <<id>>)), id))

\* the user calls cancelOrder(id)
UserCancelOrder(id) ==
  Do(cancelOrder(Begin("cancelOrder", OrderCall("cancelOrder", <<id>>)), id))

\* the user calls cancelOrders(ids)
UserCancelOrders(ids) ==
  Do(cancelOrders(Begin("cancelOrders", OrderCall("cancelOrders", ids)), ids))

\* the user calls submitOrderMultiOp(opPayloads)
UserSubmitOrderMultiOp(ids) ==
  Do(submitOrderMultiOp(
       Begin("submitOrderMultiOp", OrderCall("submitOrderMultiOp", ids)),
       [i \in 1..Len(ids) |-> <<"oc", ids[i]>>]))

\* the user calls enableFlag(flag)
UserEnableFlag(flag) ==
  Do(enableFlag(Begin("enableFlag", [kind |-> "flag", flag |-> flag]), flag))

\* the timer _ensureOrderBuffTimeout set expires
FlushTimer ==
  /\ orderOpTimeout # NULL
  /\ Do(flushOrderOps(Begin("flushOrderOps", [kind |-> "timer", sock |-> NULL])))

\* the timer _onWSClose set at the close of transport k expires
ReconnectTimer(k) ==
  /\ k \in reconnectTimers
  /\ Do(reconnectAfterClose(
          [Begin("reconnectTimer", [kind |-> "timer", sock |-> k])
             EXCEPT !.reconnectTimers = @ \ {k}], 0))

\* a watchdog timer expires
WatchdogTimer(t) ==
  /\ t \in wdTimers
  /\ Do(triggerPacketWD(
          [Begin("watchdogTimer", [kind |-> "timer", sock |-> t.sock])
             EXCEPT !.wdTimers = @ \ {t}]))

\* transport k emits 'open'
SocketOpen(k) ==
  /\ Live(k) /\ sockets[k].state = "connecting"
  /\ Do(onOpenEvent(Begin("onOpenEvent", [kind |-> "socket", sock |-> k]), k))

\* transport k emits 'close': the connection failed, was dropped by the
\* server, or the close handshake ended
SocketClose(k) ==
  /\ Live(k)
  /\ Do(onCloseEvent(Begin("onCloseEvent", [kind |-> "socket", sock |-> k]), k))

\* transport k emits 'message'
SocketMessage(k, msg) ==
  /\ Live(k) /\ sockets[k].state \in {"open", "closing"}
  /\ Do(onWSMessage(Begin("onWSMessage", msg), msg))

\* ------------------------------------------------- the constructor
\* opts.orderOpBufferDelay: not given, or a number of milliseconds.
NotGiven == [given |-> FALSE, value |-> 0]
Given(v) == [given |-> TRUE, value |-> v]
OrderOpBufferDelayOptions == {NotGiven, Given(UNSET), Given(0), Given(MaxDelay)}

Constructed ==
  /\ manageOrderBooks \in BOOLEAN
  /\ manageCandles \in BOOLEAN
  /\ autoReconnect \in BOOLEAN
  /\ packetWDDelay \in BOOLEAN
  /\ seqAudit \in BOOLEAN
  /\ enabledFlags = IF seqAudit THEN SEQ_ALL ELSE 0
  /\ isOpen = FALSE /\ ws = NULL /\ isClosing = FALSE /\ isReconnecting = FALSE
  /\ isAuthenticated = FALSE /\ authOnReconnect = FALSE
  /\ lastPubSeq = UNSET /\ lastAuthSeq = UNSET
  /\ packetWDTimeout = NULL
  /\ channelMap = EmptyMap /\ prevChannelMap = EmptyMap
  /\ subscriptionRefs = EmptyMap
  /\ candles = EmptyMap /\ orderBooks = EmptyMap /\ losslessOrderBooks = EmptyMap
  /\ optOrderOpBufferDelay \in OrderOpBufferDelayOptions
  /\ orderOpBufferDelay = IF optOrderOpBufferDelay.given /\ optOrderOpBufferDelay.value # 0
                          THEN optOrderOpBufferDelay.value ELSE UNSET
  /\ orderOpBuffer = <<>> /\ orderOpTimeout = NULL
  /\ listeners = EmptyMap /\ eventCallbacks = EmptyMap
  /\ sockets = <<>> /\ reconnectTimers = {} /\ wdTimers = {}
  /\ closeWaiters = <<>> /\ openWaiters = <<>> /\ authWaiters = <<>>
  /\ op = "constructor" /\ rx = NoPacket /\ sent = <<>> /\ events = <<>>
  /\ resolved = <<>> /\ propagated = <<>> /\ thrown = "" /\ invoked = <<>>

\* ----------------------------------- the connection life cycle (Spec)
TickerBTC == Chan("ticker", "tBTCUSD", "", "", "")
StatusDeriv == Chan("status", "", "deriv:tBTCF0:USTF0", "", "")
NoChanData == Chan("", "", "", "", "")

AuthOK == EventPacket("auth", "OK", 0, NoChanData)
AuthFailed == EventPacket("auth", "FAILED", 0, NoChanData)
InfoVersion(v) == [EventPacket("info", "", 0, NoChanData) EXCEPT !.version = v]
Subscribed(chanId, chan) == EventPacket("subscribed", "", chanId, chan)

LifePackets ==
  {AuthOK, AuthFailed, InfoVersion(1), Subscribed(1, TickerBTC)}

Init ==
  /\ Constructed
  /\ ~manageOrderBooks /\ ~manageCandles /\ ~seqAudit
  /\ optOrderOpBufferDelay = NotGiven

Next ==
  \/ UserOpen
  \/ UserClose
  \/ UserAuth
  \/ UserReconnect
  \/ \E k \in reconnectTimers : ReconnectTimer(k)
  \/ \E t \in wdTimers : WatchdogTimer(t)
  \/ \E k \in 1..Len(sockets) : SocketOpen(k)
  \/ \E k \in 1..Len(sockets) : SocketClose(k)
  \/ \E k \in 1..Len(sockets), msg \in LifePackets : SocketMessage(k, msg)

Spec == Init /\ [][Next]_vars

\* ------------------------------- subscriptions and managed stores (SpecData)
TradesBTC == Chan("trades", "tBTCUSD", "", "", "")
BookBTC == Chan("book", "tBTCUSD", "", "P0", "25")
CandlesBTC == Chan("candles", "", "trade:1m:tBTCUSD", "", "")

Numeral(v, lex) == [v |-> v, lex |-> lex]
Level(price, count, amount) ==
  <<Numeral(price, 0), Numeral(count, 0), Numeral(amount, 1)>>

BookSnapshot(chanId) ==
  ChanPacket(chanId, "", TRUE, Rows(<<Level(100, 1, 2), Level(101, 1, -2)>>), <<>>)
CandleSnapshot(chanId) ==
  ChanPacket(chanId, "", TRUE, Rows(<<<<1, 10>>, <<2, 11>>>>), <<>>)
CandleUpdate(chanId, mts) ==
  ChanPacket(chanId, "", TRUE, Row(<<mts, 12>>), <<>>)

DataPackets ==
  {AuthOK}
  \cup {Subscribed(1, c) : c \in {TickerBTC, BookBTC}}
  \cup {Subscribed(2, c) : c \in {CandlesBTC, StatusDeriv, TradesBTC}}
  \cup {BookSnapshot(1), CandleSnapshot(2), CandleUpdate(2, 3)}

InitData ==
  /\ Constructed
  /\ manageOrderBooks /\ manageCandles /\ ~seqAudit
  /\ autoReconnect /\ ~packetWDDelay
  /\ optOrderOpBufferDelay = NotGiven

NextData ==
  \/ UserOpen
  \/ \E k \in reconnectTimers : ReconnectTimer(k)
  \/ \E k \in 1..Len(sockets) : SocketOpen(k)
  \/ \E k \in 1..Len(sockets) : SocketClose(k)
  \/ \E k \in 1..Len(sockets), msg \in DataPackets : SocketMessage(k, msg)

SpecData == InitData /\ [][NextData]_vars

\* ------------------------------------- managed subscriptions (SpecSub)
Unsubscribed(chanId) == EventPacket("unsubscribed", "OK", chanId, NoChanData)

SubPackets ==
  {Subscribed(1, TickerBTC), Subscribed(2, BookBTC), Unsubscribed(1), Unsubscribed(2)}

InitSub ==
  /\ Constructed
  /\ ~manageOrderBooks /\ ~manageCandles /\ ~seqAudit
  /\ ~autoReconnect /\ ~packetWDDelay
  /\ optOrderOpBufferDelay = NotGiven

NextSub ==
  \/ UserOpen
  \/ UserClose
  \/ UserSubscribeTicker("tBTCUSD")
  \/ UserSubscribeOrderBook("tBTCUSD")
  \/ UserUnsubscribeTicker("tBTCUSD")
  \/ UserUnsubscribeOrderBook("tBTCUSD")
  \/ \E k \in 1..Len(sockets) : SocketOpen(k)
  \/ \E k \in 1..Len(sockets) : SocketClose(k)
  \/ \E k \in 1..Len(sockets), msg \in SubPackets : SocketMessage(k, msg)

SpecSub == InitSub /\ [][NextSub]_vars

\* ------------------------- references across a reconnect (SpecResub)
BookP1 == Chan("book", "tBTCUSD", "", "P1", "25")

ResubPackets ==
  {Subscribed(1, TickerBTC), Subscribed(2, BookBTC), Subscribed(3, BookP1)}

InitResub ==
  /\ Constructed
  /\ ~manageOrderBooks /\ ~manageCandles /\ ~seqAudit
  /\ autoReconnect /\ ~packetWDDelay
  /\ optOrderOpBufferDelay = NotGiven

NextResub ==
  \/ UserOpen
  \/ UserSubscribeTicker("tBTCUSD")
  \/ UserUnsubscribeTicker("tBTCUSD")
  \/ \E prec \in {"P0", "P1"} : UserSubscribeBookRaw("tBTCUSD", prec)
  \/ \E k \in reconnectTimers : ReconnectTimer(k)
  \/ \E k \in 1..Len(sockets) : SocketOpen(k)
  \/ \E k \in 1..Len(sockets) : SocketClose(k)
  \/ \E k \in 1..Len(sockets), msg \in ResubPackets : SocketMessage(k, msg)

SpecResub == InitResub /\ [][NextResub]_vars

\* ------------------------------------------ listener dispatch (SpecListen)
\* Payload fields are strings here (prices as the server sends them with the
\* string-decimals flag), a position being [symbol, status, ...].
TickerETH == Chan("ticker", "tETHUSD", "", "", "")
TickerPrices(chanId) == ChanPacket(chanId, "", TRUE, Row(<<"7100", "2">>), <<>>)
PositionRow(symbol) == <<symbol, "ACTIVE">>
PositionUpdate(symbol) == ChanPacket(0, "pu", TRUE, Row(PositionRow(symbol)), <<>>)
PositionSnapshot(symbols) ==
  ChanPacket(0, "ps", TRUE,
             Rows([i \in 1..Len(symbols) |-> PositionRow(symbols[i])]), <<>>)

ListenPackets ==
  {AuthOK, Subscribed(1, TickerBTC), Subscribed(2, TickerETH),
   TickerPrices(1), TickerPrices(2),
   PositionUpdate("tBTCUSD"), PositionUpdate("tETHUSD"),
   PositionSnapshot(<<"tETHUSD", "tBTCUSD">>), PositionSnapshot(<<"tETHUSD">>)}

CbGroups == {0, 1}

InitListen ==
  /\ Constructed
  /\ ~manageOrderBooks /\ ~manageCandles /\ ~seqAudit
  /\ ~autoReconnect /\ ~packetWDDelay
  /\ optOrderOpBufferDelay = NotGiven

NextListen ==
  \/ UserOpen
  \/ \E g \in CbGroups : UserOnMessage(g)
  \/ \E g \in CbGroups : UserOnTicker("tBTCUSD", g)
  \/ \E g \in CbGroups : UserOnPositionSnapshot("tBTCUSD", g)
  \/ \E g \in CbGroups : UserOnPositionUpdate("tBTCUSD", g)
  \/ \E k \in 1..Len(sockets) : SocketOpen(k)
  \/ \E k \in 1..Len(sockets), msg \in ListenPackets : SocketMessage(k, msg)

SpecListen == InitListen /\ [][NextListen]_vars

\* ------------------------------------ order listeners (SpecOrderNew)
\* An 'on' packet: [0, 'on', [id, gid, cid, symbol, ...]], gid null.
OrderNew(id, cid, symbol) ==
  ChanPacket(0, "on", TRUE, Row(<<id, NULL, cid, symbol>>), <<>>)

OrderNewPackets ==
  {AuthOK} \cup {OrderNew(id, 7, symbol) : id \in {1, 2}, symbol \in {"tBTCUSD", "tETHUSD"}}

InitOrderNew ==
  /\ Constructed
  /\ ~manageOrderBooks /\ ~manageCandles /\ ~seqAudit
  /\ ~autoReconnect /\ ~packetWDDelay
  /\ optOrderOpBufferDelay = NotGiven

NextOrderNew ==
  \/ UserOpen
  \/ \E symbol \in {Undefined, Str("tBTCUSD"), Str("*")}, id \in {Undefined, Num(1)},
        cid \in {Undefined, Num(7)} : UserOnOrderNew(symbol, id, cid, 0)
  \/ \E k \in 1..Len(sockets) : SocketOpen(k)
  \/ \E k \in 1..Len(sockets), msg \in OrderNewPackets : SocketMessage(k, msg)

SpecOrderNew == InitOrderNew /\ [][NextOrderNew]_vars

\* ------------------------------------- managed candles (SpecCandles)
\* Open-times and closing prices of the candle updates received.
MaxMts == 4
Prices == {12, 13}
CandleUpdateTo(chanId, mts, price) ==
  ChanPacket(chanId, "", TRUE, Row(<<mts, price>>), <<>>)

CandlePackets ==
  {Subscribed(2, CandlesBTC), CandleSnapshot(2)}
  \cup {CandleUpdateTo(2, mts, price) : mts \in 1..MaxMts, price \in Prices}

InitCandles ==
  /\ Constructed
  /\ ~manageOrderBooks /\ manageCandles /\ ~seqAudit
  /\ ~autoReconnect /\ ~packetWDDelay
  /\ optOrderOpBufferDelay = NotGiven

NextCandles ==
  \/ UserOpen
  \/ \E k \in 1..MaxSockets : SocketOpen(k) \/ SocketClose(k)
  \/ \E k \in 1..MaxSockets : \E msg \in CandlePackets : SocketMessage(k, msg)

SpecCandles == InitCandles /\ [][NextCandles]_vars

\* --------------------------------- order-book checksums (SpecChecksum)
BookFUSD == Chan("book", "fUSD", "", "P0", "25")

\* A funding level [rate, period, count, amount].
FundingSnapshot(chanId) ==
  ChanPacket(chanId, "", TRUE,
    Rows(<<<<Numeral(1, 0), Numeral(2, 0), Numeral(1, 0), Numeral(5, 1)>>,
           <<Numeral(2, 0), Numeral(2, 0), Numeral(1, 0), Numeral(-5, 1)>>>>), <<>>)
BookUpdate(chanId, price, count, amount) ==
  ChanPacket(chanId, "", TRUE, Row(Level(price, count, amount)), <<>>)

\* [chanId, 'cs', checksum]
Checksum(chanId, cs) == ChanPacket(chanId, "cs", FALSE, NoBody, <<cs>>)

\* The checksum the server sends for a book channel: that of the book the
\* instance holds, or another one.
ChecksumsFor(chanId) ==
  IF Has(channelMap, chanId) /\ Has(losslessOrderBooks, channelMap[chanId].symbol)
  THEN LET cs == checksumArr(losslessOrderBooks[channelMap[chanId].symbol], FALSE)
       IN {cs, (cs + 1) % 65536}
  ELSE {0}

ChecksumPackets ==
  {Subscribed(1, BookBTC), Subscribed(3, BookFUSD), BookSnapshot(1), FundingSnapshot(3),
   BookUpdate(1, 100, 0, 1), BookUpdate(1, 99, 1, 3)}
  \cup {Checksum(chanId, cs) : chanId \in {1, 3}, cs \in ChecksumsFor(1) \cup ChecksumsFor(3)}

InitChecksum ==
  /\ Constructed
  /\ ~manageCandles /\ ~seqAudit /\ ~autoReconnect /\ ~packetWDDelay
  /\ optOrderOpBufferDelay = NotGiven

NextChecksum ==
  \/ UserOpen
  \/ UserOnMessage(0)
  \/ \E symbol \in {"tBTCUSD", "fUSD"} : UserOnOrderBookChecksum(symbol, 0)
  \/ \E k \in 1..Len(sockets) : SocketOpen(k) \/ SocketClose(k)
  \/ \E k \in 1..Len(sockets), msg \in ChecksumPackets : SocketMessage(k, msg)

SpecChecksum == InitChecksum /\ [][NextChecksum]_vars

\* ------------------------------------ commands and confirmations (SpecCmd)
\* Operations in the order-op buffer at a time.
MaxBuffered == 1
DEC_S == 8
TIME_S == 32
Statuses == {"SUCCESS", "ERROR"}

\* [0, 'n', [mts, type, msgId, null, order, code, status, text]]
Notification(type, id, status) ==
  ChanPacket(0, "n", TRUE, OrderNote(type, id, id, status), <<>>)

\* { event: 'conf', status, flags }
Conf(status, flags) ==
  [kind |-> "event", event |-> "conf", status |-> status, version |-> 0,
   chanId |-> 0, chan |-> NoChanData, tag |-> "", hasBody |-> FALSE,
   body |-> NoBody, trail |-> <<>>, flags |-> flags]

CmdPackets ==
  {AuthOK} \cup {Notification(type, 1, status) : type \in ReqTypes, status \in Statuses}

InitCmd ==
  /\ Constructed
  /\ ~manageOrderBooks /\ ~manageCandles /\ ~seqAudit
  /\ ~autoReconnect /\ ~packetWDDelay
  /\ optOrderOpBufferDelay \in {NotGiven, Given(MaxDelay)}

NextCmd ==
  \/ UserOpen
  \/ UserReconnect
  \/ \E k \in 1..MaxSockets : ReconnectTimer(k) \/ SocketOpen(k) \/ SocketClose(k)
  \/ \E k \in 1..MaxSockets : \E msg \in CmdPackets : SocketMessage(k, msg)
  \/ /\ Len(orderOpBuffer) < MaxBuffered
     /\ \/ UserSubmitOrder(1)
        \/ \E id \in {0, 1} : UserUpdateOrder(id)
        \/ UserCancelOrder(1)
        \/ UserCancelOrders(<<1>>)
  \/ UserSubmitOrderMultiOp(<<1>>)
  \/ FlushTimer

SpecCmd == InitCmd /\ [][NextCmd]_vars

\* ------------------------------------------ flag configuration (SpecConf)
ConfPackets ==
  {Conf(status, flags) : status \in {"OK", "FAILED"},
                         flags \in {DEC_S, TIME_S, BitOr(DEC_S, TIME_S)}}

InitConf ==
  /\ Constructed
  /\ ~manageOrderBooks /\ ~manageCandles
  /\ ~packetWDDelay
  /\ optOrderOpBufferDelay = NotGiven

NextConf ==
  \/ UserOpen
  \/ \E k \in 1..MaxSockets : SocketOpen(k) \/ SocketClose(k) \/ ReconnectTimer(k)
  \/ \E k \in 1..MaxSockets : \E msg \in ConfPackets : SocketMessage(k, msg)
  \/ \E flag \in {DEC_S, TIME_S} : UserEnableFlag(flag)

SpecConf == InitConf /\ [][NextConf]_vars

\* ------------------------------------- order-op batching (SpecBatch)
\* Orders a cancelOrders call names.
BulkSizes == {15, 22}

\* An id no command has used.
NextOrderId == Cardinality(DOMAIN eventCallbacks) + 1

InitBatch ==
  /\ Constructed
  /\ ~manageOrderBooks /\ ~manageCandles /\ ~seqAudit
  /\ ~autoReconnect /\ ~packetWDDelay

NextBatch ==
  \/ UserOpen
  \/ \E k \in 1..MaxSockets : SocketOpen(k) \/ SocketClose(k) \/ SocketMessage(k, AuthOK)
  \/ /\ NextOrderId <= MaxSingleOps
     /\ \/ UserSubmitOrder(NextOrderId)
        \/ UserUpdateOrder(NextOrderId)
        \/ UserCancelOrder(NextOrderId)
  \/ \E n \in BulkSizes :
       UserCancelOrders([i \in 1..n |-> NextOrderId + i - 1])
  \/ FlushTimer

SpecBatch == InitBatch /\ [][NextBatch]_vars

\* --------------------------------------------- sequence audit (SpecSeq)
\* Packets as the server sends them with the SEQ_ALL flag on: a public
\* channel's packet ends with the public sequence number, an account
\* (channel 0) packet with the public and the auth sequence numbers, and a
\* *-req notification with the auth sequence number only.
Seqs == 1..MaxSeq

TickerUpdate(chanId, seq) == ChanPacket(chanId, "", TRUE, Row(<<7, 8>>), <<seq>>)
Heartbeat(chanId, seq) == ChanPacket(chanId, "hb", FALSE, NoBody, <<seq>>)
BookSnapshotSeq(chanId, seq) ==
  ChanPacket(chanId, "", TRUE, Rows(<<Level(100, 1, 2), Level(101, 1, -2)>>), <<seq>>)
WalletUpdate(seq, authSeq) == ChanPacket(0, "wu", TRUE, Row(<<1, 2>>), <<seq, authSeq>>)
ReqNotification(authSeq) == ChanPacket(0, "n", TRUE, Note("on-req"), <<authSeq>>)
PlainNotification(seq, authSeq) ==
  ChanPacket(0, "n", TRUE, Note("ucm-test"), <<seq, authSeq>>)

SeqPackets ==
  {AuthOK, Subscribed(1, TickerBTC), Subscribed(2, BookBTC)}
  \cup {TickerUpdate(1, q) : q \in Seqs}
  \cup {Heartbeat(c, q) : c \in {0, 1}, q \in Seqs}
  \cup {BookSnapshotSeq(2, q) : q \in Seqs}
  \cup {WalletUpdate(q, a) : q \in Seqs, a \in 0..MaxSeq}
  \cup {ReqNotification(a) : a \in 0..MaxSeq}
  \cup {PlainNotification(q, a) : q \in Seqs, a \in 0..MaxSeq}

InitSeq ==
  /\ Constructed
  /\ seqAudit /\ manageOrderBooks /\ ~manageCandles
  /\ ~autoReconnect /\ ~packetWDDelay
  /\ optOrderOpBufferDelay = NotGiven

NextSeq ==
  \/ UserOpen
  \/ \E k \in 1..Len(sockets) : SocketOpen(k)
  \/ \E k \in 1..Len(sockets) : SocketClose(k)
  \/ \E k \in 1..Len(sockets), msg \in SeqPackets : SocketMessage(k, msg)

SpecSeq == InitSeq /\ [][NextSeq]_vars

\* --------------------------- packets that are dropped (SpecDrop)
CandleSnapshotSeq(chanId, seq) ==
  ChanPacket(chanId, "", TRUE, Rows(<<<<1, 10>>, <<2, 11>>>>), <<seq>>)

DropPackets ==
  {Subscribed(1, BookBTC), Subscribed(2, CandlesBTC), Subscribed(3, TickerBTC)}
  \cup {BookSnapshotSeq(1, q) : q \in Seqs}
  \cup {CandleSnapshotSeq(2, q) : q \in Seqs}
  \cup {TickerUpdate(3, q) : q \in Seqs}
  \cup {Heartbeat(c, q) : c \in {1, 3}, q \in Seqs}

InitDrop ==
  /\ Constructed
  /\ manageOrderBooks /\ manageCandles
  /\ ~autoReconnect /\ packetWDDelay
  /\ optOrderOpBufferDelay = NotGiven

NextDrop ==
  \/ UserOpen
  \/ UserOnMessage(0)
  \/ UserOnTicker("tBTCUSD", 0)
  \/ \E t \in wdTimers : WatchdogTimer(t)
  \/ \E k \in 1..Len(sockets) : SocketOpen(k)
  \/ \E k \in 1..Len(sockets), msg \in DropPackets : SocketMessage(k, msg)

SpecDrop == InitDrop /\ [][NextDrop]_vars

\* ============================================================ claims
Range(f) == {f[i] : i \in DOMAIN f}

\* C1: however many reconnect triggers overlap for one disconnect, exactly
\* one new transport is opened (never a second one beside a live one), and a
\* trigger left over from that disconnect - the reconnect timer of an earlier
\* close event, a watchdog timer armed on an earlier transport - does not
\* close the connection the attempt established.
C1_TriggersConvergeOnOneAttempt ==
  [][ /\ Len(sockets') <= Len(sockets) + 1
      /\ Len(sockets') > Len(sockets) => \A k \in 1..Len(sockets) : ~Live(k)
      /\ \A k \in reconnectTimers :
           (k \notin reconnectTimers' /\ ws # NULL /\ isOpen)
             => sockets'[ws].closeFrames = sockets[ws].closeFrames
      /\ \A t \in wdTimers :
           (t \notin wdTimers' /\ op' = "watchdogTimer"
              /\ ws # NULL /\ isOpen /\ t.sock # ws)
             => sockets'[ws].closeFrames = sockets[ws].closeFrames
    ]_vars

\* C2: with a watchdog delay configured, while the connection is open and no
\* reconnect has been triggered, a watchdog timer armed on this connection (at
\* its open event or at its last packet) is pending, so that a packet-free
\* delay ends in reconnect().
C2_WatchdogArmedWhileOpen ==
  (packetWDDelay /\ isOpen /\ ~isReconnecting)
    => \E t \in wdTimers : t.sock = ws /\ t.id = packetWDTimeout

\* A close() the user called is pending on transport k.
UserClosePending(k) ==
  \E w \in Range(closeWaiters) : w.kind = "close" /\ w.sock = k

\* Any close() call - the user's or _handleInfoEvent's - is pending on k.
DirectClosePending(k) ==
  \E w \in Range(closeWaiters) : w.kind \in {"close", "infoClose"} /\ w.sock = k

CloseEventOf(k) == Live(k) /\ sockets'[k].state = "closed"

SubscribeRequestFor(chan) ==
  [event |-> "subscribe", channel |-> chan.channel,
   payload |-> CASE chan.channel = "book" ->
                      [symbol |-> chan.symbol, len |-> chan.len, prec |-> chan.prec]
                 [] chan.channel \in {"candles", "status"} -> [key |-> chan.key]
                 [] OTHER -> [symbol |-> chan.symbol]]

DataChannels(map) == {c \in DOMAIN map : map[c].channel # "auth"}

\* C4: at an open event with a preserved channel map, one subscribe request
\* is sent for every entry other than the authenticated channel - ticker,
\* trades, book, candles and status alike - with the entry's attributes, and
\* the preserved map is empty afterwards.
C4_ResubscribesEveryEntry ==
  [][ (op' = "onOpenEvent" /\ DOMAIN prevChannelMap # {}) =>
        /\ \A c \in DataChannels(prevChannelMap) :
             \E i \in DOMAIN sent' : sent'[i] = SubscribeRequestFor(prevChannelMap[c])
        /\ Cardinality({i \in DOMAIN sent' : sent'[i].event = "subscribe"})
             = Cardinality(DataChannels(prevChannelMap))
        /\ prevChannelMap' = EmptyMap
    ]_vars

\* C5: every open() that passes its state check leaves the subscription refs
\* and every managed store empty: the candle sets, the numeric order books and
\* the lossless order books.  (Nothing is received on a transport before its
\* open event, so this is the state for as long as the transport connects.)
C5_OpenClearsStores ==
  (ws # NULL /\ sockets[ws].state = "connecting")
    => /\ subscriptionRefs = EmptyMap
       /\ candles = EmptyMap
       /\ orderBooks = EmptyMap
       /\ losslessOrderBooks = EmptyMap

ReconnectFutures(waiters) == {w \in Range(waiters) : w.kind = "reconnect"}
AuthConfirmed == op = "onWSMessage" /\ rx.event = "auth" /\ rx.status = "OK"

\* C6: a reconnect() called while connected has a close frame sent; its
\* future waits for the close event, then for 'open' - for 'auth' if auth()
\* had been called before - and completes only at the open event of a later
\* transport, or (flag set) only at a successful auth confirmation; it does
\* complete whenever that event occurs, and a reopening made by
\* reconnectAfterClose sends the auth request the confirmation answers.
C6_ReconnectCompletesAfterReopen ==
  /\ [](/\ \A w \in ReconnectFutures(closeWaiters) :
             sockets[w.sock].state = "closing" /\ sockets[w.sock].closeFrames = 1
        /\ \A w \in ReconnectFutures(openWaiters) :
             sockets[w.sock].state = "closed" /\ ~w.auth
        /\ \A w \in ReconnectFutures(authWaiters) :
             sockets[w.sock].state = "closed"
        /\ \A w \in ReconnectFutures(resolved) :
             /\ sockets[w.sock].state = "closed" /\ isOpen /\ ws > w.sock
             /\ IF w.auth THEN AuthConfirmed /\ isAuthenticated
                ELSE op = "onOpenEvent" \/ AuthConfirmed
        /\ (op = "onOpenEvent" /\ sockets[rx.sock].opener = "reconnectAfterClose"
              /\ authOnReconnect)
             => sent[Len(sent)] = [event |-> "auth"])
  /\ [][ /\ op' = "onOpenEvent" =>
              /\ openWaiters' = <<>>
              /\ ReconnectFutures(openWaiters) \subseteq Range(resolved')
         /\ (op' = "onWSMessage" /\ rx'.event = "auth" /\ rx'.status = "OK") =>
              /\ authWaiters' = <<>>
              /\ ReconnectFutures(authWaiters) \subseteq Range(resolved')
         /\ \A w \in ReconnectFutures(closeWaiters) : CloseEventOf(w.sock) =>
              w \in Range(openWaiters') \cup Range(authWaiters')
       ]_vars

\* C6 witness: a reconnect() made after auth() completed at an auth
\* confirmation.
C6_Witness ==
  \E w \in ReconnectFutures(resolved) : w.auth /\ AuthConfirmed

AuthFutures(waiters) == {w \in Range(waiters) : w.kind = "auth"}

\* C7: authenticated turns true, and an auth() future completes, only when an
\* auth confirmation with status OK is received; until then the future stays
\* pending; at the confirmation authenticated is true, the channel map holds
\* an entry for the confirmation's channel id tagged as the auth channel, and
\* every pending auth() future completes.
C7_AuthCompletesOnConfirmation ==
  /\ []((AuthFutures(resolved) # {} => AuthConfirmed)
        /\ (AuthConfirmed =>
              /\ isAuthenticated
              /\ Has(channelMap, rx.chanId)
              /\ channelMap[rx.chanId].channel = "auth"
              /\ authWaiters = <<>>))
  /\ [][ /\ (isAuthenticated' /\ ~isAuthenticated) =>
              (op' = "onWSMessage" /\ rx'.event = "auth" /\ rx'.status = "OK")
         /\ \A w \in AuthFutures(authWaiters) :
              \/ w \in Range(authWaiters')
              \/ (op' = "onWSMessage" /\ rx'.event = "auth" /\ rx'.status = "OK"
                  /\ w \in Range(resolved'))
       ]_vars

\* C7 witness: an auth() future completed at a confirmation.
C7_Witness ==
  AuthConfirmed /\ AuthFutures(resolved) # {} /\ isAuthenticated

\* C8: however many close() calls are made on an open connection before its
\* close event, at most one close frame is sent; every pending close() is on
\* the current transport, and all of them complete at its close event, after
\* which the instance is not open and holds no transport.
C8_CloseIsIdempotent ==
  /\ [](/\ \A k \in 1..Len(sockets) : sockets[k].closeFrames <= 1
        /\ \A w \in Range(closeWaiters) : w.sock = ws /\ Live(w.sock) /\ isOpen
        /\ op = "onCloseEvent" => (~isOpen /\ ws = NULL /\ closeWaiters = <<>>))
  /\ [][ \A k \in 1..Len(sockets) : CloseEventOf(k) =>
           /\ resolved' = [i \in 1..Len(closeWaiters) |-> closeFuture(closeWaiters[i])]
           /\ Len(closeWaiters) > 0 => sockets[k].closeFrames = 1
       ]_vars

\* C8 witness: two close() calls completed at one close event.
C8_Witness ==
  /\ op = "onCloseEvent"
  /\ Len(resolved) = 2 /\ resolved[1].kind = "close" /\ resolved[2].kind = "close"

\* The public sequence number a packet carries, by the packet's layout.
CarriesPublicSeq(msg) ==
  msg.kind = "chan" /\ msg.trail # <<>> /\ ~(msg.tag = "n" /\ msg.body.b1 \in ReqTypes)
PublicSeq(msg) == msg.trail[1]

\* C9: with the audit on and the public counter seeded, a received packet
\* whose public sequence number is the stored counter plus one gets no
\* public-sequence error from the audit and the counter becomes that number;
\* a packet with any other public sequence number gets the public-sequence
\* error, exactly one 'error' event is emitted for it and nothing else, and
\* the counter is left as it was.
C9_PublicSeqAudit ==
  [][ (op' = "onWSMessage" /\ seqAudit /\ lastPubSeq # UNSET /\ CarriesPublicSeq(rx')) =>
        LET audit == validateMessageSeq(This, rx') IN
        IF PublicSeq(rx') = lastPubSeq + 1
        THEN /\ audit.err # "invalid pub seq #"
             /\ audit.lastPubSeq = PublicSeq(rx')
             /\ lastPubSeq' = PublicSeq(rx')
             /\ (audit.err = "" => events'[1] = "message")
        ELSE /\ audit.err = "invalid pub seq #"
             /\ audit.lastPubSeq = lastPubSeq
             /\ events' = <<"error">>
             /\ lastPubSeq' = lastPubSeq
    ]_vars

\* C9 witnesses: an out-of-sequence packet met a seeded counter (one error,
\* nothing else), having followed packets that advanced the counter.
C9_Witness ==
  /\ op = "onWSMessage" /\ CarriesPublicSeq(rx) /\ seqAudit
  /\ events = <<"error">>
  /\ lastPubSeq = 2 /\ PublicSeq(rx) = 2

\* C10: a packet the audit rejects is reported by one 'error' event and goes
\* no further - no 'message' event, nothing handed to the listeners, no
\* channel handler's event, the channel map and the managed candles and
\* order books untouched - and the connection is left as it was: open, no
\* close frame, same transport.  A packet the audit accepts, whatever was
\* rejected before it, is emitted as 'message' and handled.
C10_RejectedPacketIsDropped ==
  [][ (op' = "onWSMessage" /\ seqAudit) =>
        LET audit == validateMessageSeq(This, rx') IN
        IF audit.err # ""
        THEN /\ events' = <<"error">>
             /\ propagated' = <<>>
             /\ sent' = <<>>
             /\ UNCHANGED <<candles, orderBooks, losslessOrderBooks, channelMap,
                            isOpen, isClosing, ws, sockets, isAuthenticated>>
        ELSE /\ events' # <<>> /\ events'[1] = "message"
             /\ (rx'.kind = "chan" /\ Has(channelMap, rx'.chanId) /\ rx'.tag # "hb")
                  => (propagated' # <<>> \/ "error" \in Range(events'))
    ]_vars

\* C10 witness: the audit rejected a packet for a subscribed book on an
\* open connection and the book store holds the earlier snapshot.
C10_Witness ==
  /\ op = "onWSMessage" /\ seqAudit /\ events = <<"error">> /\ isOpen
  /\ rx.kind = "chan" /\ Has(channelMap, rx.chanId)
  /\ channelMap[rx.chanId].channel = "book"
  /\ Has(orderBooks, channelMap[rx.chanId].symbol)

RefKey(call) == <<call.channel, call.identifier>>

\* C11: on an open connection that is not closing, a managedSubscribe call
\* counts one reference and sends a subscribe request only when it is the
\* first for its (channel, identifier); a managedUnsubscribe call that leaves
\* references sends nothing and uncounts one, the one that releases the last
\* reference sends exactly one unsubscribe and ends the tracking, and one
\* made with no reference counted sends nothing and changes nothing.
C11_RefCountedSubscriptions ==
  [][ /\ (op' = "managedSubscribe" /\ isOpen /\ ~isClosing) =>
           LET key == RefKey(rx') IN
           IF Has(subscriptionRefs, key)
           THEN /\ sent' = <<>>
                /\ subscriptionRefs' = [subscriptionRefs EXCEPT ![key] = @ + 1]
           ELSE /\ Len(sent') = 1 /\ sent'[1].event = "subscribe"
                /\ subscriptionRefs' = Put(subscriptionRefs, key, 1)
      /\ (op' = "managedUnsubscribe" /\ isOpen /\ ~isClosing) =>
           LET key == RefKey(rx') IN
           IF ~Has(subscriptionRefs, key)
           THEN sent' = <<>> /\ UNCHANGED <<subscriptionRefs, channelMap>>
           ELSE IF subscriptionRefs[key] > 1
           THEN /\ sent' = <<>>
                /\ subscriptionRefs' = [subscriptionRefs EXCEPT ![key] = @ - 1]
           ELSE /\ Len(sent') = 1 /\ sent'[1].event = "unsubscribe"
                /\ subscriptionRefs' = Del(subscriptionRefs, key)
    ]_vars

\* The registered listener a call was made to.
ListenerOf(call) ==
  CHOOSE l \in Range(listeners[call.cbGID]) : l.cb = call.cb
FiltersOnBTC(l) ==
  ~l.filter.isNull /\ DOMAIN l.filter.at = {0} /\ l.filter.at[0] = Str("tBTCUSD")
FilteredCalls ==
  {call \in Range(invoked) : ~call.catchAll /\ FiltersOnBTC(ListenerOf(call))}

\* C12 as stated: a listener with the filter {0: 'tBTCUSD'} is called only
\* with a payload that has 'tBTCUSD' at index 0.
C12_FilterOnPayload ==
  \A call \in FilteredCalls :
    /\ call.msg.data.shape = "row"
    /\ call.msg.data.rows[1] # <<>>
    /\ call.msg.data.rows[1][1] = "tBTCUSD"

\* C12, amended: a listener with the filter {0: 'tBTCUSD'} is called only for
\* a packet whose filtered value has 'tBTCUSD' at index 0: the filter
\* override the handler attached (for a ticker the channel's symbol, not the
\* payload), else the payload, or for a snapshot payload any one of its rows.
C12_FilterOnOverrideOrPayload ==
  \A call \in FilteredCalls :
    LET msg == call.msg IN
    IF msg.filterOverride # <<>> THEN msg.filterOverride[1] = "tBTCUSD"
    ELSE IF msg.data.shape = "rows"
    THEN \E i \in 1..Len(msg.data.rows) :
           msg.data.rows[i] # <<>> /\ msg.data.rows[i][1] = "tBTCUSD"
    ELSE /\ msg.data.shape = "row"
         /\ msg.data.rows[1] # <<>>
         /\ msg.data.rows[1][1] = "tBTCUSD"

\* C12 witness: a position update for tBTCUSD reached a filtered listener
\* while a ticker listener with the same filter is registered.
C12_Witness ==
  /\ op = "onWSMessage" /\ rx.tag = "pu"
  /\ \E call \in FilteredCalls : call.msg.data.rows[1][1] = "tBTCUSD"
  /\ \E g \in DOMAIN listeners : \E l \in Range(listeners[g]) :
       l.eventName = "ticker" /\ FiltersOnBTC(l)

\* The callbacks called by the catch-all for the n-th packet a handler
\* propagated, in call order, per group.
CatchAllCalls(g, msg) ==
  SelectSeq(invoked, LAMBDA call : call.cbGID = g /\ call.catchAll /\ call.msg = msg)
CatchAllListeners(g) == SelectSeq(listeners[g], LAMBDA l : l.eventName = "")

\* C13: for every packet handed to the listeners, each group's catch-all
\* listeners are each called exactly once with the packet, in registration
\* order, whatever the packet's event name and whatever other listeners,
\* filters and models the group holds.
C13_CatchAllSeesEveryPacket ==
  /\ Len(propagated) <= 1
  /\ \A n \in 1..Len(propagated) : \A g \in DOMAIN listeners :
       LET calls == CatchAllCalls(g, propagated[n])
           all == CatchAllListeners(g)
       IN /\ Len(calls) = Len(all)
          /\ \A j \in 1..Len(all) : calls[j].cb = all[j].cb

\* C13 witness: a ticker packet for another symbol was handed to two
\* catch-all listeners of a group that also holds a filtered ticker listener.
C13_Witness ==
  /\ Len(propagated) = 1 /\ propagated[1].eventName = "ticker"
  /\ propagated[1].filterOverride = <<"tETHUSD">>
  /\ \E g \in DOMAIN listeners :
       /\ Len(CatchAllCalls(g, propagated[1])) = 2
       /\ \E l \in Range(listeners[g]) : l.eventName = "ticker" /\ FiltersOnBTC(l)

\* The buffered operations as _flushOrderOps sends them.
BufferedOps == [i \in 1..Len(orderOpBuffer) |->
                  <<orderOpBuffer[i].type, orderOpBuffer[i].id>>]

\* C14: with buffering on and the connection open and authenticated, the
\* flush of n buffered operations sends ceil(n/15) multi-op messages and
\* nothing else; every message but the last carries 15 operations, the last
\* the remaining ones, and the messages in send order carry the operations in
\* enqueue order.
C14_FlushInBatchesOf15 ==
  [][(op' = "flushOrderOps" /\ hasOrderBuff(This)
        /\ isAuthenticated /\ isOpen /\ ~isClosing)
     => LET n == Len(BufferedOps)
            m == (n + 14) \div 15
        IN /\ Len(sent') = m
           /\ orderOpBuffer' = <<>>
           /\ \A j \in 1..m :
                /\ sent'[j].event = "" /\ sent'[j].type = "ox_multi"
                /\ Len(sent'[j].ops) = IF j < m THEN 15 ELSE n - 15 * (m - 1)
                /\ \A i \in 1..Len(sent'[j].ops) :
                     sent'[j].ops[i] = BufferedOps[15 * (j - 1) + i]]_vars

\* C14 witness: a flush of 37 operations sent messages of 15, 15 and 7.
C14_Witness ==
  /\ op = "flushOrderOps" /\ isAuthenticated /\ thrown = ""
  /\ Len(sent) = 3
  /\ Len(sent[1].ops) = 15 /\ Len(sent[2].ops) = 15 /\ Len(sent[3].ops) = 7

\* The single-order commands and the number of operations each enqueues.
OrderCommands == {"submitOrder", "updateOrder", "cancelOrder", "cancelOrders"}

\* C15 as stated: with a delay d >= 0 configured, zero included, an accepted
\* order command is queued and nothing is sent; with no delay configured or a
\* negative one, each operation is sent at once and nothing is queued.
C15_NonNegativeDelayQueues ==
  [][(op' \in OrderCommands /\ thrown' = "")
     => IF optOrderOpBufferDelay.given /\ optOrderOpBufferDelay.value >= 0
        THEN /\ sent' = <<>>
             /\ Len(orderOpBuffer') = Len(orderOpBuffer) + Len(rx'.ids)
        ELSE /\ orderOpBuffer' = orderOpBuffer
             /\ Len(sent') + Len(events') = Len(rx'.ids)]_vars

\* The packet received is an update (one candle, not a snapshot) on a
\* subscribed candle channel whose set is known.
CandleUpdateFor(s, msg) ==
  /\ msg.kind = "chan" /\ Has(s.channelMap, msg.chanId)
  /\ s.channelMap[msg.chanId].channel = "candles"
  /\ msg.tag = "" /\ msg.hasBody /\ msg.body.shape = "row"
  /\ Has(s.candles, s.channelMap[msg.chanId].key)

\* C16: a candle update for a known key whose open-time is that of a candle of
\* the set replaces that candle where it stands, the others and the length
\* unchanged; an update with an open-time no candle has becomes the first
\* candle, followed by the former set in its order.
C16_CandleReplacedOrPrepended ==
  [][(op' = "onWSMessage" /\ manageCandles /\ CandleUpdateFor(This, rx'))
     => LET key == channelMap[rx'.chanId].key
            old == candles[key]
            new == candles'[key]
            r == rx'.body.rows[1]
        IN IF \E i \in 1..Len(old) : old[i][1] = r[1]
           THEN /\ Len(new) = Len(old)
                /\ \A i \in 1..Len(old) :
                     new[i] = IF old[i][1] = r[1] THEN r ELSE old[i]
           ELSE new = <<r>> \o old]_vars

\* C16 witness: an update replaced the second of three candles.
C16_Witness ==
  /\ op = "onWSMessage" /\ CandleUpdateFor(This, rx)
  /\ Len(candles[channelMap[rx.chanId].key]) = 3
  /\ candles[channelMap[rx.chanId].key][2] = rx.body.rows[1]

\* The packet received is a checksum for a subscribed book channel.
ChecksumFor(s, msg) ==
  /\ msg.kind = "chan" /\ msg.tag = "cs"
  /\ Has(s.channelMap, msg.chanId) /\ s.channelMap[msg.chanId].channel = "book"

\* The server's checksum differs from the one of the managed lossless book.
Mismatch(s, msg) ==
  LET symbol == s.channelMap[msg.chanId].symbol IN
  /\ s.manageOrderBooks /\ Has(s.losslessOrderBooks, symbol)
  /\ checksumArr(s.losslessOrderBooks[symbol], s.channelMap[msg.chanId].prec = "R0")
       # msg.trail[1]

\* C17: on a checksum packet for a trading symbol whose value differs from the
\* checksum of the managed lossless book, an error is emitted, both books are
\* left as they are and no ob_checksum listener (nor any other) is called; a
\* checksum packet for a funding symbol emits no error.
C17_ChecksumMismatchReported ==
  [][(op' = "onWSMessage" /\ ChecksumFor(This, rx'))
     => LET symbol == channelMap[rx'.chanId].symbol IN
        /\ (FirstChar(symbol) = "t" /\ Mismatch(This, rx'))
             => /\ \E i \in 1..Len(events') : events'[i] = "error"
                /\ orderBooks' = orderBooks
                /\ losslessOrderBooks' = losslessOrderBooks
                /\ invoked' = <<>>
        /\ FirstChar(symbol) = "f"
             => \A i \in 1..Len(events') : events'[i] # "error"]_vars

\* C17 witness: a checksum that is not the managed book's was received for
\* tBTCUSD while an ob_checksum listener for tBTCUSD and a catch-all listener
\* are registered, and an error was emitted.
C17_Witness ==
  /\ op = "onWSMessage" /\ ChecksumFor(This, rx) /\ Mismatch(This, rx)
  /\ channelMap[rx.chanId].symbol = "tBTCUSD"
  /\ events = <<"message", "cs", "error">>
  /\ Has(listeners, 0)
  /\ \E l \in Range(listeners[0]) : l.eventName = "ob_checksum" /\ l.filter.at[0].v = "tBTCUSD"
  /\ \E l \in Range(listeners[0]) : l.eventName = ""

\* The packet is a confirmation with the key: an order notification of the
\* key's kind and id, or a conf event of the key's flags.
Confirms(msg, key) ==
  \/ /\ msg.kind = "chan" /\ msg.tag = "n" /\ msg.hasBody
     /\ "order" \in DOMAIN msg.body
     /\ \/ msg.body.b1 = "on-req" /\ key = EventKey("order-new", msg.body.order.cid)
        \/ msg.body.b1 = "oc-req" /\ key = EventKey("order-cancel", msg.body.order.id)
        \/ msg.body.b1 = "ou-req" /\ key = EventKey("order-update", msg.body.order.id)
  \/ /\ msg.kind = "event" /\ msg.event = "conf"
     /\ key = EventKey("conf-res", msg.flags)

\* The command futures a step settled.
SettledCommands(settled) == SelectSeq(settled, LAMBDA c : c.kind = "command")

\* C18: a command awaiting its confirmation stays pending, neither resolved
\* nor rejected, through every step that is not the receipt of a confirmation
\* with its key: through the close event of the transport and the start of a
\* reconnect in particular.
C18_PendingUntilConfirmed ==
  [][/\ \A key \in DOMAIN eventCallbacks :
          (op' = "onWSMessage" /\ Confirms(rx', key))
          \/ /\ Has(eventCallbacks', key)
             /\ SubSeq(eventCallbacks'[key], 1, Len(eventCallbacks[key]))
                  = eventCallbacks[key]
             /\ \A c \in Range(SettledCommands(resolved')) : c.key # key
     /\ op' \in {"onCloseEvent", "reconnect", "reconnectTimer"}
          => eventCallbacks' = eventCallbacks /\ SettledCommands(resolved') = <<>>]_vars

\* C18 witness: the transport closed while a command sent on it awaited its
\* confirmation, and the command is still pending.
C18_Witness ==
  /\ op = "onCloseEvent"
  /\ \E key \in DOMAIN eventCallbacks : \E c \in Range(eventCallbacks[key]) :
       c.sock = rx.sock /\ c.outcome = "pending" /\ c.request.event = ""

\* The calls C19 is about.
FailingOrderCall(s, name, call) ==
  /\ name \in {"submitOrder", "updateOrder", "cancelOrder", "cancelOrders",
               "submitOrderMultiOp"}
  /\ ~s.isAuthenticated \/ (name = "updateOrder" /\ call.ids = <<0>>)

C20_FlagFutureSettledByEcho ==
  [][(op' = "onWSMessage" /\ rx'.kind = "event" /\ rx'.event = "conf")
     => \A key \in DOMAIN eventCallbacks : \A c \in Range(eventCallbacks[key]) :
          (key.type = "conf-res" /\ c.sock = ws /\ c.request.event = "conf"
             /\ c.request.flags = rx'.flags)
          => \E j \in 1..Len(resolved') :
               resolved'[j] = [c EXCEPT !.outcome =
                                 IF rx'.status = "OK" THEN "resolved" ELSE "rejected"]]_vars

\* C21: open() called while the instance is open or holds a transport (a
\* connecting one included) throws; no transport is created, nothing is sent,
\* and the subscription references, the managed stores, the channel map and
\* the connection flags are as before.
C21_OpenTwiceRefused ==
  [][(op' = "open" /\ (isOpen \/ ws # NULL))
     => /\ thrown' = "already open"
        /\ sockets' = sockets /\ ws' = ws /\ sent' = <<>>
        /\ subscriptionRefs' = subscriptionRefs
        /\ candles' = candles /\ orderBooks' = orderBooks
        /\ losslessOrderBooks' = losslessOrderBooks
        /\ channelMap' = channelMap /\ prevChannelMap' = prevChannelMap
        /\ isOpen' = isOpen /\ isClosing' = isClosing
        /\ isReconnecting' = isReconnecting
        /\ isAuthenticated' = isAuthenticated]_vars

\* C21 witness: open() was refused on an open connection that holds managed
\* candles and a managed book.
C21_Witness ==
  /\ op = "open" /\ thrown = "already open" /\ isOpen
  /\ candles # EmptyMap /\ orderBooks # EmptyMap

\* C22: auth() called while the connection is not open, or while it is
\* authenticated, throws, sends nothing and leaves no listener for the auth
\* event.
C22_AuthRefused ==
  [][(op' = "auth" /\ (~isOpen \/ isAuthenticated))
     => /\ thrown' \in {"not open", "already authenticated"}
        /\ sent' = <<>>
        /\ authWaiters' = authWaiters
        /\ isAuthenticated' = isAuthenticated]_vars

\* C22 witness: auth() was refused on an open, authenticated connection.
C22_Witness ==
  /\ op = "auth" /\ isOpen /\ isAuthenticated /\ thrown = "already authenticated"

\* C23: reconnect(), or the reconnect timer's reconnectAfterClose(), called
\* while a transport exists whose open event has not been handled, ends
\* without an error and creates no transport.
C23_ReconnectJoinsAttemptInFlight ==
  [][(op' \in {"reconnect", "reconnectTimer"} /\ ws # NULL /\ ~isOpen)
     => /\ thrown' = ""
        /\ sockets' = sockets /\ ws' = ws]_vars

\* Transport k closes before its open event was handled, on an instance with
\* auto-reconnect that still holds the channels of the connection it lost.
AttemptFails(k) ==
  /\ autoReconnect /\ CloseEventOf(k) /\ sockets[k].state = "connecting"
  /\ sockets[k].opener = "reconnectAfterClose"
  /\ DataChannels(prevChannelMap) # {}

\* C24: with auto-reconnect on, when a reconnect attempt fails (its transport
\* closes before it opened) another attempt is scheduled and the channels of
\* the lost connection stay preserved for it; at the open event of an attempt
\* the preserved ticker, trades, book and candle channels are requested again.
C24_RetriesKeepChannels ==
  [][\A k \in 1..Len(sockets) :
       /\ AttemptFails(k)
            => /\ k \in reconnectTimers'
               /\ prevChannelMap' = prevChannelMap
       /\ (op' = "onOpenEvent" /\ sockets[k].state = "connecting"
             /\ sockets'[k].state = "open")
            => \A c \in DataChannels(prevChannelMap) :
                 prevChannelMap[c].channel # "status"
                   => \E i \in DOMAIN sent' :
                        sent'[i] = SubscribeRequestFor(prevChannelMap[c])]_vars

\* The state of the connection's life cycle.
Lifecycle(s) ==
  IF s.ws = NULL
  THEN IF s.isReconnecting \/ s.reconnectTimers # {} THEN "Reconnecting" ELSE "Closed"
  ELSE IF ~s.isOpen THEN "Opening"
  ELSE IF s.isClosing THEN "Closing"
  ELSE IF s.isAuthenticated THEN "Authenticated"
  ELSE IF \E w \in Range(s.authWaiters) : w.kind = "auth" THEN "Authenticating"
  ELSE "Open"

\* The transitions of the life cycle as the state machine draws them.
DrawnTransitions ==
  {<<"Closed", "Opening">>, <<"Opening", "Open">>,
   <<"Open", "Authenticating">>, <<"Authenticating", "Authenticated">>,
   <<"Open", "Closing">>, <<"Authenticated", "Closing">>,
   <<"Closing", "Closed">>,
   <<"Closed", "Reconnecting">>, <<"Reconnecting", "Opening">>}

\* The transitions a close event takes besides Closing to Closed: the
\* transport failed or the connection was lost or closed for a reconnect.
LossTransitions ==
  {<<from, to>> : from \in {"Opening", "Open", "Authenticating", "Authenticated"},
                  to \in {"Closed", "Reconnecting"}}
  \cup {<<"Closing", "Reconnecting">>}

\* C25 as stated: every step either leaves the life-cycle state as it is or
\* takes one of the transitions drawn.
C25_OnlyDrawnTransitions ==
  [][Lifecycle(This)' # Lifecycle(This)
     => <<Lifecycle(This), Lifecycle(This)'>> \in DrawnTransitions]_vars

\* C25, amended: every step either leaves the life-cycle state as it is or
\* takes a transition drawn, or one of these: at a close event, from Opening,
\* Open, Authenticating or Authenticated to Closed or to Reconnecting and from
\* Closing to Reconnecting; at a close() or reconnect(), from Authenticating to
\* Closing; at an auth confirmation, from Open to Authenticated; at an open
\* event, from Opening to Authenticating.  Closed and Reconnecting are entered
\* at close events only, and Opening at open() or at a reconnect only.
C25_TransitionsTaken ==
  [][Lifecycle(This)' # Lifecycle(This)
     => LET tr == <<Lifecycle(This), Lifecycle(This)'>> IN
        /\ \/ tr \in DrawnTransitions \ {<<"Closed", "Reconnecting">>}
           \/ tr \in LossTransitions
           \/ tr = <<"Authenticating", "Closing">>
           \/ tr = <<"Open", "Authenticated">> /\ op' = "onWSMessage"
           \/ tr = <<"Opening", "Authenticating">> /\ op' = "onOpenEvent"
        /\ tr[2] \in {"Closed", "Reconnecting"} => op' = "onCloseEvent"
        /\ tr[2] = "Opening" => op' \in {"open", "reconnect", "reconnectTimer"}
        /\ tr[2] = "Open" => op' = "onOpenEvent"]_vars

\* C25 witness: a connection lost under auto-reconnect, no close() having been
\* called on it, waits for its reconnect timer.
C25_Witness ==
  /\ op = "onCloseEvent" /\ Lifecycle(This) = "Reconnecting"
  /\ autoReconnect /\ ~isReconnecting /\ authOnReconnect
  /\ closeWaiters = <<>> /\ resolved = <<>>

\* C26: at most one watchdog timer is armed, and it is the one the instance
\* holds the handle of; a packet disarms the armed timer and arms one anew
\* (on an open connection); an expiry of the watchdog disarms it and calls
\* reconnect() at most once, so no second expiry follows without a packet.
C26_OneWatchdogTimer ==
  /\ [](/\ Cardinality(wdTimers) <= 1
        /\ \A t \in wdTimers : t.id = packetWDTimeout)
  /\ [][/\ op' = "onWSMessage"
             => /\ Cardinality(wdTimers') <= 1
                /\ (packetWDDelay /\ isOpen) => Cardinality(wdTimers') = 1
        /\ op' = "watchdogTimer"
             => /\ wdTimers' = {}
                /\ Len(sockets') = Len(sockets)
                /\ \A k \in 1..Len(sockets) :
                     sockets'[k].closeFrames <= sockets[k].closeFrames + 1]_vars

\* C26 witness: a second packet arrived on an open connection and one timer
\* is armed.
C26_Witness ==
  /\ op = "onWSMessage" /\ packetWDDelay /\ isOpen
  /\ Cardinality(wdTimers) = 1 /\ packetWDTimeout # NULL
  /\ isAuthenticated /\ Cardinality(DOMAIN channelMap) = 2

\* ------------------------------------------------------------------ C27
IsHeartbeat(msg) == msg.kind = "chan" /\ msg.tag = "hb"
IsReqEcho(msg) == msg.kind = "chan" /\ Msg2EndsWithReq(msg)
AuthErrors ==
  {"invalid auth seq #, expected no advancement",
   "expected auth seq # advancement but got same seq", "invalid auth seq #"}

\* C27 as stated: with the audit on, a heartbeat packet or a request-echo
\* packet (event tag ending in '-req') gets no error from the audit and
\* leaves the public and the authenticated counter as they were, whatever
\* its trailing values.
C27_HeartbeatAndReqSkipped ==
  [][ (op' = "onWSMessage" /\ seqAudit /\ (IsHeartbeat(rx') \/ IsReqEcho(rx'))) =>
        LET audit == validateMessageSeq(This, rx') IN
        /\ audit.err = ""
        /\ events' # <<"error">>
        /\ lastPubSeq' = lastPubSeq
        /\ lastAuthSeq' = lastAuthSeq
    ]_vars

\* C27 amended: with the audit on, a heartbeat packet is audited for the
\* public sequence like any other packet - its last value seeds an unset
\* public counter, advances a seeded one when it is the counter plus one and
\* raises the public-sequence error (counter unchanged) otherwise - and never
\* touches the authenticated counter nor raises an authenticated-sequence
\* error.  A request-echo packet never touches either counter and never
\* raises the public-sequence error; it raises the authenticated-sequence
\* error exactly when its last value is not 0 and differs from the stored
\* authenticated counter.
C27_AuditOfHeartbeatAndReq ==
  [][ (op' = "onWSMessage" /\ seqAudit) =>
        LET audit == validateMessageSeq(This, rx')
            last == rx'.trail[Len(rx'.trail)]
        IN
        /\ (IsHeartbeat(rx') /\ rx'.trail # <<>>) =>
             /\ lastAuthSeq' = lastAuthSeq
             /\ audit.err \notin AuthErrors
             /\ IF lastPubSeq = UNSET \/ last = lastPubSeq + 1
                THEN audit.err = "" /\ lastPubSeq' = last
                     /\ events' # <<"error">>
                ELSE audit.err = "invalid pub seq #" /\ lastPubSeq' = lastPubSeq
                     /\ events' = <<"error">>
        /\ (IsReqEcho(rx') /\ rx'.trail # <<>>) =>
             /\ lastPubSeq' = lastPubSeq
             /\ lastAuthSeq' = lastAuthSeq
             /\ audit.err # "invalid pub seq #"
             /\ (audit.err # "") = (last # 0 /\ last # lastAuthSeq)
             /\ (events' = <<"error">>) = (last # 0 /\ last # lastAuthSeq)
    ]_vars

\* C27 witness: a heartbeat whose trailing value is not the successor of the
\* seeded public counter was reported as an error, after a request-echo
\* packet or account packet had set the authenticated counter aside from
\* the public one.
C27_Witness ==
  /\ op = "onWSMessage" /\ seqAudit /\ IsHeartbeat(rx)
  /\ events = <<"error">>
  /\ lastPubSeq = 2 /\ rx.trail = <<2>> /\ lastAuthSeq = 1

\* ------------------------------------------------------------------ C28
IsAccountPacket(msg) ==
  msg.kind = "chan" /\ msg.chanId = 0 /\ msg.tag # "hb" /\ msg.trail # <<>>
AuthSeq(msg) == msg.trail[Len(msg.trail)]

\* C28 as stated: with the audit on, for a non-heartbeat packet on channel
\* 0: an authenticated sequence number of 0 raises no authenticated-sequence
\* error and leaves the counter; a notification raises an error exactly when
\* its number differs from the stored counter and never changes the counter;
\* any other packet raises no authenticated-sequence error when the counter
\* is unset, and otherwise is accepted, the counter advancing, exactly when
\* its number is the counter plus one, and raises an error in every other
\* case.
C28_AuthSeqAuditAsStated ==
  [][ (op' = "onWSMessage" /\ seqAudit /\ IsAccountPacket(rx')) =>
        LET audit == validateMessageSeq(This, rx')
            a == AuthSeq(rx')
        IN
        IF a = 0 THEN audit.err \notin AuthErrors /\ lastAuthSeq' = lastAuthSeq
        ELSE IF rx'.tag = "n"
             THEN /\ (audit.err # "") = (a # lastAuthSeq)
                  /\ lastAuthSeq' = lastAuthSeq
        ELSE IF lastAuthSeq = UNSET THEN audit.err \notin AuthErrors
        ELSE IF a = lastAuthSeq + 1
             THEN audit.err = "" /\ lastAuthSeq' = a
        ELSE audit.err # "" /\ lastAuthSeq' = lastAuthSeq
    ]_vars

\* C28 amended: with the audit on, a non-heartbeat packet on channel 0
\* reaches the authenticated-sequence check only when the public-sequence
\* check lets it through with a seeded public counter (or the packet is a
\* request echo, which carries no public number): the packet that seeds the
\* public counter and a packet the public check rejects leave the
\* authenticated counter as it was and get no authenticated-sequence error.
\* For a packet that reaches the check: an authenticated sequence number of
\* 0 raises no error and leaves the counter; a notification raises an error
\* exactly when its number differs from the stored counter, and never
\* changes the counter; any other packet is accepted and stored when the
\* counter is unset, and otherwise accepted and stored exactly when its
\* number is the counter plus one, an error being raised and the counter
\* left in every other case.  Every error is emitted as one 'error' event.
C28_AuthSeqAudit ==
  [][ (op' = "onWSMessage" /\ seqAudit /\ IsAccountPacket(rx')) =>
        LET audit == validateMessageSeq(This, rx')
            a == AuthSeq(rx')
            seeds == ~IsReqEcho(rx') /\ Len(rx'.trail) >= 2 /\ lastPubSeq = UNSET
        IN
        /\ (audit.err # "") = (events' = <<"error">>)
        /\ lastAuthSeq' = audit.lastAuthSeq
        /\ IF seeds
           THEN audit.err = "" /\ lastAuthSeq' = lastAuthSeq
                /\ lastPubSeq' = rx'.trail[1]
           ELSE IF audit.err = "invalid pub seq #" THEN lastAuthSeq' = lastAuthSeq
           ELSE IF a = 0 THEN audit.err = "" /\ lastAuthSeq' = lastAuthSeq
           ELSE IF rx'.tag = "n"
                THEN /\ (audit.err # "") = (a # lastAuthSeq)
                     /\ lastAuthSeq' = lastAuthSeq
           ELSE IF lastAuthSeq = UNSET \/ a = lastAuthSeq + 1
                THEN audit.err = "" /\ lastAuthSeq' = a
           ELSE audit.err \in AuthErrors /\ lastAuthSeq' = lastAuthSeq
    ]_vars

\* C28 witness: a notification carrying the successor of the stored
\* authenticated counter passed the public-sequence check and was reported
\* as an error, the authenticated counter staying at 2.
C28_Witness ==
  /\ op = "onWSMessage" /\ seqAudit /\ IsAccountPacket(rx)
  /\ rx.tag = "n" /\ ~Msg2EndsWithReq(rx)
  /\ events = <<"error">>
  /\ lastAuthSeq = 2 /\ AuthSeq(rx) = 3 /\ lastPubSeq = rx.trail[1]

\* ------------------------------------------------------------------ C29
StrictlyDescending(rows) ==
  \A i \in 1..(Len(rows) - 1) : RowKey(rows[i]) > RowKey(rows[i + 1])

\* C29: with candle management on, every managed candle set is strictly
\* descending by open-time (so no two of its candles share an open-time),
\* whatever snapshots and single-candle updates were received for its key.
C29_CandlesStrictlyDescending ==
  manageCandles => \A key \in DOMAIN candles : StrictlyDescending(candles[key])

\* ------------------------------------------------------------------ C30
\* A filter value that requires something: not undefined, '' or '*'.
Requires(v) == v.t \in {"string", "number"} /\ ~(v.t = "string" /\ v.v \in {"", "*"})
Required(v) == IF v.t = "number" THEN v.n ELSE v.v

\* The sequences a packet's filters are matched against: the filter override
\* the handler attached, else the payload or each row of a snapshot.
MatchedSequences(msg) ==
  IF msg.filterOverride # <<>> THEN {msg.filterOverride}
  ELSE IF msg.data.shape = "rows" THEN Range(msg.data.rows)
  ELSE IF msg.data.shape = "row" THEN {msg.data.rows[1]}
  ELSE {<<>>}

\* C30: a listener whose filter requires a value at an index - a string such
\* as a symbol, or a number such as an order id, client id or group id - is
\* called only for a packet one of whose matched sequences holds that very
\* value at that index, for every index the filter requires.
C30_RequiredValuesMatch ==
  \A call \in Range(invoked) :
    LET l == ListenerOf(call) IN
    (~call.catchAll /\ ~l.filter.isNull) =>
      \E m \in MatchedSequences(call.msg) :
        \A i \in DOMAIN l.filter.at :
          Requires(l.filter.at[i]) => (i + 1 <= Len(m) /\ m[i + 1] = Required(l.filter.at[i]))

\* ------------------------------------------------------------------ C31
IsOrderConfirmation(msg) ==
  /\ msg.kind = "chan" /\ msg.chanId = 0 /\ msg.tag = "n" /\ msg.hasBody
  /\ "order" \in DOMAIN msg.body /\ msg.body.b1 \in ReqTypes
ConfirmedKey(msg) ==
  CASE msg.body.b1 = "on-req" -> EventKey("order-new", msg.body.order.cid)
    [] msg.body.b1 = "oc-req" -> EventKey("order-cancel", msg.body.order.id)
    [] msg.body.b1 = "ou-req" -> EventKey("order-update", msg.body.order.id)

\* C31: an order confirmation (on-req, oc-req, ou-req) received on the
\* authenticated channel settles the futures pending under its key and no
\* other - resolved on status SUCCESS, rejected otherwise - and takes them
\* out of the registry, every future under another key staying pending as
\* it was; with nothing pending under the key (the confirmation arriving a
\* second time) it settles nothing.  The registry holds pending futures
\* only, so no future is settled twice.
C31_ConfirmationSettlesItsKey ==
  /\ [](\A key \in DOMAIN eventCallbacks : \A c \in Range(eventCallbacks[key]) :
          c.outcome = "pending" /\ c.key = key)
  /\ [][(op' = "onWSMessage" /\ IsOrderConfirmation(rx') /\ Has(channelMap, 0))
        => LET key == ConfirmedKey(rx')
               outcome == IF rx'.body.status = "SUCCESS" THEN "resolved" ELSE "rejected"
           IN /\ SettledCommands(resolved')
                   = IF Has(eventCallbacks, key)
                     THEN [i \in 1..Len(eventCallbacks[key]) |->
                             [eventCallbacks[key][i] EXCEPT !.outcome = outcome]]
                     ELSE <<>>
              /\ DOMAIN eventCallbacks' = DOMAIN eventCallbacks \ {key}
              /\ \A k \in DOMAIN eventCallbacks' :
                   eventCallbacks'[k] = eventCallbacks[k]]_vars

\* C31 witness: a failed cancel confirmation rejected the pending cancel
\* while a submit and an update under other keys stay pending.
C31_Witness ==
  /\ op = "onWSMessage" /\ IsOrderConfirmation(rx)
  /\ rx.body.b1 = "oc-req" /\ rx.body.status = "ERROR"
  /\ \E c \in Range(SettledCommands(resolved)) :
       c.key = EventKey("order-cancel", 1) /\ c.outcome = "rejected"
  /\ Has(eventCallbacks, EventKey("order-new", 1))
  /\ Has(eventCallbacks, EventKey("order-update", 1))

\* ------------------------------------------------------------------ C32
RECURSIVE OpsSent(_)
OpsSent(msgs) ==
  IF msgs = <<>> THEN <<>>
  ELSE (IF "ops" \in DOMAIN Head(msgs) THEN Head(msgs).ops ELSE <<>>)
       \o OpsSent(Tail(msgs))

\* C32: when the flush timer fires, the operations of the order-op buffer
\* are written to the transport, each in exactly one multi-op message - the
\* operations sent are those buffered, in their order - whatever happened to
\* the connection since they were enqueued.
C32_BufferedOpsAreSent ==
  [][op' = "flushOrderOps" => OpsSent(sent') = BufferedOps]_vars

\* ------------------------------------------------------------------ C33
\* C33: with buffering on, in every state the flush timer is armed exactly
\* when the order-op buffer is not empty; an accepted order command leaves
\* the timer armed, the armed timer being the one of the first enqueue of the
\* window; the expiry of the timer empties the buffer and disarms the timer,
\* so that it cannot fire again before the next enqueue.
C33_TimerArmedIffBuffered ==
  /\ [](hasOrderBuff(This) => ((orderOpTimeout # NULL) <=> (orderOpBuffer # <<>>)))
  /\ [][/\ (op' \in OrderCommands /\ thrown' = "" /\ hasOrderBuff(This))
             => /\ orderOpTimeout' # NULL
                /\ orderOpTimeout # NULL => orderOpTimeout' = orderOpTimeout
                /\ Len(orderOpBuffer') = Len(orderOpBuffer) + Len(rx'.ids)
        /\ op' = "flushOrderOps"
             => /\ orderOpTimeout # NULL
                /\ orderOpTimeout' = NULL /\ orderOpBuffer' = <<>>]_vars

\* C33 witness: a second command was enqueued in a window whose timer the
\* first had armed.
C33_Witness ==
  /\ op \in OrderCommands /\ thrown = "" /\ hasOrderBuff(This)
  /\ Len(orderOpBuffer) = 2 /\ orderOpTimeout # NULL
  /\ orderOpBuffer[1].type = "on" /\ orderOpBuffer[2].type = "oc"

\* ------------------------------------------------------------------ C34
LiveSockets == {k \in 1..Len(sockets) : Live(k)}

\* C34: in every state, authenticated implies open, open implies that the
\* instance holds a transport, and at most one transport is alive (created
\* and its close event not yet emitted), which is the one the instance
\* holds; a transport is created only when every earlier one has emitted
\* its close event.
C34_OneTransport ==
  /\ [](/\ isAuthenticated => isOpen
        /\ isOpen => ws # NULL
        /\ Cardinality(LiveSockets) <= 1
        /\ LiveSockets = IF ws = NULL THEN {} ELSE {ws})
  /\ [][Len(sockets') > Len(sockets)
          => /\ Len(sockets') = Len(sockets) + 1
             /\ \A k \in 1..Len(sockets) : sockets[k].state = "closed"]_vars

\* C34 witness: a second transport is open and authenticated, the first
\* having closed.
C34_Witness ==
  /\ isAuthenticated /\ isOpen /\ ws = 2
  /\ sockets[1].state = "closed" /\ sockets[2].state = "open"

\* ------------------------------------------------------------------ C35
ConfMessages(msgs) == SelectSeq(msgs, LAMBDA m : m.event = "conf")

\* C35: the close event of a transport leaves the instance not open, not
\* authenticated, without transport, with both sequence counters unset, the
\* closing flag false, no subscription references, an empty channel map and
\* no enabled flag.  While the instance is not open the enabled flags are
\* set at an enableFlag call only, and an open event sends the enabled flags
\* exactly when there are some: the flags enabled before a close event, the
\* sequencing flag of the constructor among them, are not sent at the next
\* open event unless enableFlag was called since.
C35_CloseResetsFlags ==
  [][/\ \A k \in 1..Len(sockets) : CloseEventOf(k) =>
          /\ ~isOpen' /\ ~isAuthenticated' /\ ws' = NULL /\ ~isClosing'
          /\ lastPubSeq' = UNSET /\ lastAuthSeq' = UNSET
          /\ subscriptionRefs' = EmptyMap /\ channelMap' = EmptyMap
          /\ enabledFlags' = 0
     /\ (~isOpen /\ ~isOpen' /\ enabledFlags' # enabledFlags)
          => \/ op' = "enableFlag"
             \/ op' = "onCloseEvent" /\ enabledFlags' = 0
     /\ op' = "onOpenEvent" =>
          /\ enabledFlags' = enabledFlags
          /\ ConfMessages(sent')
               = IF enabledFlags = 0 THEN <<>>
                 ELSE <<[event |-> "conf", flags |-> enabledFlags]>>]_vars

\* C35 witness: with the audit set at construction, the second transport
\* opened after the first had closed, and no flags were sent.
C35_Witness ==
  /\ op = "onOpenEvent" /\ seqAudit /\ ws = 2 /\ isOpen
  /\ sockets[1].state = "closed" /\ enabledFlags = 0 /\ sent = <<>>

\* ------------------------------------------------------------------ C36
\* C36: with the audit on, an account packet (channel 0, no heartbeat, no
\* request echo) whose public sequence number is the stored counter plus one
\* and whose authenticated sequence number fails its check is reported as an
\* error, the authenticated counter is left as it was and the public counter
\* is the packet's number; a public packet numbered one higher, received
\* next, gets no error from the audit.
C36_PublicCounterAdvancesOnAuthError ==
  [][(/\ op' = "onWSMessage" /\ seqAudit /\ IsAccountPacket(rx') /\ ~IsReqEcho(rx')
      /\ Len(rx'.trail) = 2 /\ lastPubSeq # UNSET /\ rx'.trail[1] = lastPubSeq + 1
      /\ validateMessageSeq(This, rx').err \in AuthErrors)
     => /\ events' = <<"error">>
        /\ lastAuthSeq' = lastAuthSeq
        /\ lastPubSeq' = rx'.trail[1]
        /\ LET next == validateMessageSeq(
                         [seqAudit |-> seqAudit', lastPubSeq |-> lastPubSeq',
                          lastAuthSeq |-> lastAuthSeq'],
                         TickerUpdate(1, rx'.trail[1] + 1))
           IN next.err = "" /\ next.lastPubSeq = rx'.trail[1] + 1]_vars

\* C36 witness: a wallet update numbered 3 whose authenticated sequence
\* number is neither 0 nor the successor of the stored 1 was reported as an
\* error, and the public counter is 3.
C36_Witness ==
  /\ op = "onWSMessage" /\ seqAudit /\ IsAccountPacket(rx) /\ rx.tag = "wu"
  /\ events = <<"error">>
  /\ rx.trail = <<3, 3>> /\ lastPubSeq = 3 /\ lastAuthSeq = 1

\* ------------------------------------------------------------------ C37
\* The entries resubscribePreviousChannels requests again, and the
\* (type, identifier) pair an entry's reference is counted under.
Resubscribed(map) ==
  {c \in DOMAIN map : map[c].channel \in {"ticker", "trades", "book", "candles"}}
PairOf(chan) ==
  <<chan.channel, IF chan.channel = "candles" THEN chan.key ELSE chan.symbol>>
RefCount(refs, pair) == IF Has(refs, pair) THEN refs[pair] ELSE 0

C38_WatchdogSurvivesClose ==
  [][/\ \A k \in 1..Len(sockets) :
          CloseEventOf(k) => /\ wdTimers' = wdTimers
                             /\ packetWDTimeout' = packetWDTimeout
     /\ (op' = "watchdogTimer" /\ isOpen /\ ws # NULL /\ rx'.sock # ws)
          => /\ isReconnecting' /\ isClosing'
             /\ packetWDTimeout' = NULL
             /\ sockets'[ws].state = "closing"
             /\ sockets'[ws].closeFrames
                  = sockets[ws].closeFrames + (IF isClosing THEN 0 ELSE 1)
             /\ \E i \in 1..Len(closeWaiters') : closeWaiters'[i].kind = "reconnect"
     /\ (op' = "watchdogTimer" /\ ~isOpen)
          => /\ sockets' = sockets /\ ws' = ws
             /\ isReconnecting' = isReconnecting /\ isClosing' = isClosing
             /\ packetWDTimeout' = packetWDTimeout
             /\ closeWaiters' = closeWaiters /\ openWaiters' = openWaiters
             /\ reconnectTimers' = reconnectTimers
             /\ thrown' = "" /\ sent' = <<>>]_vars

\* C38 witness: the timer armed on transport 1 expired with transport 2 open
\* and no packet received on it, and transport 2 is being closed for a
\* reconnect.
C38_Witness ==
  /\ op = "watchdogTimer" /\ rx.sock = 1 /\ ws = 2
  /\ isReconnecting /\ isClosing /\ packetWDTimeout = NULL
  /\ sockets[2].state = "closing" /\ sockets[2].closeFrames = 1
  /\ sockets[1].state = "closed"

IsDropped(msg) ==
  msg.kind = "chan" /\ (~Has(channelMap, msg.chanId) \/ IsHeartbeat(msg))

\* C40: a channel packet of an unknown channel id, and any heartbeat packet,
\* calls no listener of the registry (none registered with onMessage either),
\* hands nothing to the registry and leaves the managed order books and
\* candle sets as they are; of the instance only the watchdog timer and, with
\* the audit on, the sequence counters change: the watchdog is armed anew on
\* an open connection, the counters are what the audit makes them, and the
\* packet is reported as an error exactly when the audit rejects it (as a
\* 'message' event otherwise).
C40_DroppedPacketsReachNoListener ==
  [][(op' = "onWSMessage" /\ IsDropped(rx'))
       => LET audit == validateMessageSeq(This, rx') IN
          /\ invoked' = <<>> /\ propagated' = <<>>
          /\ orderBooks' = orderBooks /\ losslessOrderBooks' = losslessOrderBooks
          /\ candles' = candles
          /\ listeners' = listeners /\ eventCallbacks' = eventCallbacks
          /\ channelMap' = channelMap /\ subscriptionRefs' = subscriptionRefs
          /\ sockets' = sockets /\ sent' = <<>> /\ resolved' = <<>> /\ thrown' = ""
          /\ isOpen' = isOpen /\ isAuthenticated' = isAuthenticated
          /\ isClosing' = isClosing /\ isReconnecting' = isReconnecting
          /\ (packetWDDelay /\ isOpen)
               => /\ Cardinality(wdTimers') = 1
                  /\ \E w \in wdTimers' : w.sock = ws /\ w.id = packetWDTimeout'
          /\ IF seqAudit
             THEN /\ lastPubSeq' = audit.lastPubSeq
                  /\ lastAuthSeq' = audit.lastAuthSeq
                  /\ events' = IF audit.err # "" THEN <<"error">> ELSE <<"message">>
             ELSE /\ lastPubSeq' = lastPubSeq /\ lastAuthSeq' = lastAuthSeq
                  /\ events' = <<"message">>]_vars

\* C40 witness: a heartbeat of the subscribed ticker channel got through the
\* audit with a ticker listener and an onMessage listener registered and an
\* order book and a candle set stored, and no listener was called.
C40_Witness ==
  /\ op = "onWSMessage" /\ IsHeartbeat(rx) /\ rx.chanId = 3
  /\ Has(channelMap, 3) /\ seqAudit /\ events = <<"message">>
  /\ Has(listeners, 0) /\ Len(listeners[0]) = 2
  /\ listeners[0][1].eventName = "" /\ listeners[0][2].eventName = "ticker"
  /\ DOMAIN orderBooks # {} /\ DOMAIN candles # {}
  /\ invoked = <<>> /\ Cardinality(wdTimers) = 1

=============================================================================
